---- MODULE Spec2Model ----
(***************************************************************************)
(* Terratomic simulation core: the execution scheduler, the gameplay       *)
(* executions (airfield, bomber, cargo plane, SAM missile, construction),  *)
(* the kinematic movers and the incremental PathFinder.                    *)
(***************************************************************************)
EXTENDS Integers, Sequences, FiniteSets, TLC

VARIABLES
    cfg,          \* map size and the numeric tunables read through mg.config()
    ticks,        \* Game: the tick counter mg.ticks()
    execs,        \* Game: the live executions, in registration order
    unInitExecs,  \* Game: executions registered through addExecution, not yet merged
    phase,        \* position of the tick loop: "idle" | "ticking"
    idx,          \* position of the tick loop inside execs
    nextId,       \* number of executions registered so far
    hist,         \* per execution id: when it was registered, when it was ticked
    tickedNow,    \* ids whose tick() ran in the tick being processed, in call order
    eligible,     \* ids that were live and due a tick() when the tick began
    pf,           \* PathFinder: curr, dst, path, aStar, computeFinished
    last,         \* the last PathFinder.nextTile call: arguments and result
    walker,       \* a caller of PathFinder.nextTile that follows the returned tiles
    probe         \* a mover or a selection function under test: inputs and result

vars == <<cfg, ticks, execs, unInitExecs, phase, idx, nextId, hist, tickedNow,
          eligible, pf, last, walker, probe>>
schedVars == <<ticks, execs, unInitExecs, phase, idx, nextId, hist, tickedNow,
               eligible>>
pfVars == <<pf, last, walker>>

-----------------------------------------------------------------------------
(* Bounds of the model *)

MaxExecs == 4          \* executions registered over one behaviour
MaxIntents == 1        \* of them, executions registered by player intents
MaxTicks == 8          \* scheduler ticks of one behaviour
MaxHarnessTicks == 7   \* tick() calls on the execution under test
MaxDuration == 1       \* largest construction duration drawn
MaxPayload == 2        \* largest bomberPayload drawn

-----------------------------------------------------------------------------
(* Map collaborator: TileRef is y * width + x *)

NoTile == -1           \* `false` of canBuild, `true` (Arrived) of the movers, undefined

X(t) == t % cfg.w
Y(t) == t \div cfg.w
Ref(x, y) == y * cfg.w + x
Tiles == 0 .. (cfg.w * cfg.h - 1)
Abs(n) == IF n < 0 THEN -n ELSE n
ManhattanDist(a, b) == Abs(X(a) - X(b)) + Abs(Y(a) - Y(b))
EuclideanDistSquared(a, b) ==
    (X(a) - X(b)) * (X(a) - X(b)) + (Y(a) - Y(b)) * (Y(a) - Y(b))

\* a * sqrt(d) <= b, for integers a, b and d >= 0
LeqSqrt(a, d, b) ==
    IF a >= 0 THEN b >= 0 /\ a * a * d <= b * b
    ELSE b >= 0 \/ a * a * d >= b * b

\* Math.floor in the place of Math.round: the integer n with
\* n <= speed * delta / sqrt(d) < n + 1, shifted by c
RoundStepFloor(c, delta, d, speed) ==
    c + (CHOOSE n \in (-speed - 1) .. (speed + 1) :
            /\ LeqSqrt(n, d, speed * delta)
            /\ ~LeqSqrt(n + 1, d, speed * delta))

\* Math.round(c + (delta / sqrt(d)) * speed): the integer n with
\* n - 1/2 <= speed * delta / sqrt(d) < n + 1/2, shifted by c
RoundStep(c, delta, d, speed) ==
    c + (CHOOSE n \in (-speed - 1) .. (speed + 1) :
            /\ LeqSqrt(2 * n - 1, d, 2 * speed * delta)
            /\ ~LeqSqrt(2 * n + 1, d, 2 * speed * delta))

-----------------------------------------------------------------------------
(* Kinematic movers *)

\* a snap test that only accepts the destination itself
WithinSpeedOnlyAtDst(dx, dy, speed) == dx = 0 /\ dy = 0

\* Math.hypot(dx, dy) <= speed
WithinSpeed(dx, dy, speed) == dx * dx + dy * dy <= speed * speed

\* StraightPathFinder.nextTile: NoTile stands for `true` (arrived)
StraightNextTile(curr, dst, speed) ==
    LET dx == X(dst) - X(curr)
        dy == Y(dst) - Y(curr)
        d2 == dx * dx + dy * dy
    IN  IF WithinSpeed(dx, dy, speed) THEN NoTile
        ELSE LET nextX == RoundStep(X(curr), dx, d2, speed)
                 nextY == RoundStep(Y(curr), dy, d2, speed)
                 rx == X(dst) - nextX
                 ry == Y(dst) - nextY
             IN  IF WithinSpeed(rx, ry, speed) THEN NoTile
                 ELSE Ref(nextX, nextY)

\* PseudoRandom.chance(odds) is "one in odds": certain for odds 1, and for larger
\* odds whatever the generator draws (coin)
Chance(odds, coin) == odds <= 1 \/ coin

\* a ratio that never makes the x move certain
AirRatioTwo(adx, ady) == 2

\* Math.floor(1 + Math.abs(dstY - y) / (Math.abs(dstX - x) + 1))
AirRatio(adx, ady) == 1 + (ady \div (adx + 1))

\* AirPathFinder.nextTile; coin is what the generator draws for random.chance
AirNextTile(tile, dst, coin) ==
    LET x == X(tile)
        y == Y(tile)
        dstX == X(dst)
        dstY == Y(dst)
    IN  IF x = dstX /\ y = dstY THEN NoTile
        ELSE LET ratio == AirRatio(Abs(dstX - x), Abs(dstY - y))
                 moveX == Chance(ratio, coin) /\ x # dstX
                 nextX == IF moveX THEN (IF x < dstX THEN x + 1 ELSE x - 1) ELSE x
                 nextY == IF moveX THEN y
                          ELSE IF y < dstY THEN y + 1
                          ELSE IF y > dstY THEN y - 1 ELSE y
             IN  IF nextX = x /\ nextY = y THEN NoTile ELSE Ref(nextX, nextY)

-----------------------------------------------------------------------------
(* Executions.  A tick() is an operator from the execution's fields and the   *)
(* answers its collaborators give during that call (canBuild, owners, random  *)
(* outcomes) to the new fields, the executions handed to mg.addExecution, in  *)
(* call order, and the effects on units and gold, in call order.              *)

Players == {"P1", "P2"}
Other(p) == IF p = "P1" THEN "P2" ELSE "P1"

Out(e, adds, ev) == [e |-> e, adds |-> adds, ev |-> ev, threw |-> FALSE]
Throw(e, adds, ev) == [e |-> e, adds |-> adds, ev |-> ev, threw |-> TRUE]

\* a test of the answer of canBuild that takes every answer for a tile
FalsyNever(spawn) == FALSE
\* `!spawn` on the TileRef | false that canBuild returns: tile 0 is falsy too
Falsy(spawn) == spawn = NoTile \/ spawn = 0

\* a unit that answers isActive() with true whatever happened to it
UnitIsActiveAlways(e) == TRUE
\* unit.isActive() on the unit the execution built
UnitIsActive(e) == e.unitAlive

\* a delete that leaves the unit in the game
DeleteUnitForgotten(e) == e
\* unit.delete(...) on the unit the execution built
DeleteUnit(e) == [e EXCEPT !.unitAlive = FALSE]

(* ---- BomberExecution ---- *)

NewBomber(origOwner, airfieldTile, targetTile) ==
    [kind |-> "Bomber", active |-> TRUE, origOwner |-> origOwner,
     airfieldTile |-> airfieldTile, targetTile |-> targetTile,
     spawned |-> FALSE, unitAlive |-> FALSE, tile |-> NoTile,
     bombsLeft |-> 0, returning |-> FALSE, dropTicker |-> 0]

BomberInit(e, now) == [e EXCEPT !.bombsLeft = cfg.bomberPayload]

\* a drop that always sends the bomber home
BomberDropBombReturnsAtOnce(e) ==
    [e EXCEPT !.bombsLeft = e.bombsLeft - 1, !.returning = TRUE]

BomberDropBomb(e) ==
    [e EXCEPT !.bombsLeft = e.bombsLeft - 1,
              !.returning = IF e.bombsLeft - 1 = 0 THEN TRUE ELSE e.returning]

\* a build that also revives the execution
BomberBuildRevives(e, spawn) ==
    [e EXCEPT !.spawned = TRUE, !.unitAlive = TRUE, !.tile = spawn, !.active = TRUE]

\* this.bomber = this.origOwner.buildUnit(UnitType.Bomber, spawn, ...)
BomberBuild(e, spawn) ==
    [e EXCEPT !.spawned = TRUE, !.unitAlive = TRUE, !.tile = spawn]

BomberTick(e0, in) ==
    IF ~e0.spawned /\ Falsy(in.spawn)
    THEN Out([e0 EXCEPT !.active = FALSE], <<>>, <<>>)
    ELSE
    LET e1 == IF e0.spawned THEN e0 ELSE BomberBuild(e0, in.spawn)
        ev1 == IF e0.spawned THEN <<>> ELSE <<"build">>
    IN
    IF ~UnitIsActive(e1) THEN Out([e1 EXCEPT !.active = FALSE], <<>>, ev1)
    ELSE
    LET armed == ~e1.returning /\ e1.bombsLeft > 0
        e2 == IF armed THEN [e1 EXCEPT !.dropTicker = e1.dropTicker + 1] ELSE e1
    IN
    IF /\ armed
       /\ e2.dropTicker >= cfg.bomberDropCadence
       /\ EuclideanDistSquared(e2.tile, e2.targetTile) <= 1
    THEN Out([BomberDropBomb(e2) EXCEPT !.dropTicker = 0], <<>>, ev1 \o <<"drop">>)
    ELSE
    LET destination == IF e2.returning THEN e2.airfieldTile ELSE e2.targetTile
        step == StraightNextTile(e2.tile, destination, 2)
    IN
    IF step = NoTile
    THEN IF ~e2.returning /\ e2.bombsLeft > 0
         THEN Out(BomberDropBomb(e2), <<>>, ev1 \o <<"drop">>)
         ELSE IF e2.returning
         THEN Out([DeleteUnit(e2) EXCEPT !.active = FALSE], <<>>,
                  ev1 \o <<"delete">>)
         ELSE Out(e2, <<>>, ev1)
    ELSE Out([e2 EXCEPT !.tile = step], <<>>, ev1 \o <<"move">>)

(* ---- CargoPlaneExecution ---- *)

NewCargoPlane(origOwner, srcTile, dstTile) ==
    [kind |-> "CargoPlane", active |-> TRUE, origOwner |-> origOwner,
     srcTile |-> srcTile, dstTile |-> dstTile,
     spawned |-> FALSE, unitAlive |-> FALSE, unitOwner |-> origOwner,
     tile |-> NoTile, tilesTraveled |-> 0, isCaptured |-> FALSE]

CargoPlaneInit(e, now) == e

\* a redirection to the first airfield of the list
ClosestAirfieldFirst(from, fields, best, bestDist) ==
    IF fields = <<>> THEN best ELSE Head(fields)

\* the loop over friendlyAirfields: the first airfield at the least distance
RECURSIVE ClosestAirfield(_, _, _, _)
ClosestAirfield(from, fields, best, bestDist) ==
    IF fields = <<>> THEN best
    ELSE LET d == EuclideanDistSquared(from, Head(fields))
         IN  IF best = NoTile \/ d < bestDist
             THEN ClosestAirfield(from, Tail(fields), Head(fields), d)
             ELSE ClosestAirfield(from, Tail(fields), best, bestDist)

\* a trade that pays the destination's owner only
TradeGoldToDestination(e, in) ==
    <<[player |-> in.dstOwner, dist |-> e.tilesTraveled]>>
\* the two addGold calls of complete(): who receives cargoPlaneGold of which
\* distance
TradeGold(e, in) ==
    <<[player |-> in.srcOwner, dist |-> e.tilesTraveled],
      [player |-> in.dstOwner, dist |-> e.tilesTraveled]>>

CargoPlaneComplete(e, in, ev) ==
    LET done == DeleteUnit([e EXCEPT !.active = FALSE])
    IN  IF e.isCaptured THEN Out(done, <<>>, ev \o <<"delete">>)
        ELSE [gold |-> TradeGold(e, in)]
             @@ Out(done, <<>>, ev \o <<"delete", "gold", "gold">>)

CargoPlaneTick(e0, in) ==
    IF ~e0.spawned /\ in.spawn = NoTile
    THEN Out([e0 EXCEPT !.active = FALSE], <<>>, <<>>)
    ELSE
    LET e1 == IF e0.spawned THEN e0
              ELSE [e0 EXCEPT !.spawned = TRUE, !.unitAlive = TRUE,
                              !.unitOwner = e0.origOwner, !.tile = in.spawn]
        ev1 == IF e0.spawned THEN <<>> ELSE <<"build">>
        gone(e) == [DeleteUnit(e) EXCEPT !.active = FALSE]
    IN
    IF ~UnitIsActive(e1) THEN Out([e1 EXCEPT !.active = FALSE], <<>>, ev1)
    ELSE
    LET captured == e1.unitOwner # e1.origOwner
        closest == ClosestAirfield(e1.tile, in.airfields, NoTile, 0)
        e2 == IF captured
              THEN [e1 EXCEPT !.isCaptured = TRUE, !.origOwner = e1.unitOwner,
                              !.tilesTraveled = 0,
                              !.dstTile = IF closest = NoTile THEN e1.dstTile
                                          ELSE closest]
              ELSE e1
    IN
    IF captured /\ closest = NoTile THEN Out(gone(e2), <<>>, ev1 \o <<"delete">>)
    ELSE IF ~e2.isCaptured /\ in.dstOwner = in.srcOwner /\ e2.unitOwner = in.srcOwner
    THEN Out(gone(e2), <<>>, ev1 \o <<"delete">>)
    ELSE IF ~e2.isCaptured /\ (~in.dstActive \/ ~in.canTrade)
    THEN Out(gone(e2), <<>>, ev1 \o <<"delete">>)
    ELSE
    LET result == StraightNextTile(e2.tile, e2.dstTile, 2)
    IN  IF result = NoTile THEN CargoPlaneComplete(e2, in, ev1)
        ELSE Out([e2 EXCEPT !.tile = result,
                            !.tilesTraveled = e2.tilesTraveled + 1],
                 <<>>, ev1 \o <<"move">>)

(* ---- SAMMissileExecution ---- *)

NewSAMMissile(spawn, owner, target, speed) ==
    [kind |-> "SAMMissile", active |-> TRUE, spawn |-> spawn, owner |-> owner,
     targetTile |-> target, speed |-> speed,
     spawned |-> FALSE, unitAlive |-> FALSE, tile |-> NoTile, targetDeleted |-> FALSE]

SAMMissileInit(e, now) == e

\* the loop `for (let i = 0; i < this.speed; i++)`, from iteration i on
RECURSIVE SAMMissileMove(_, _, _, _)
SAMMissileMove(e, i, chances, ev) ==
    IF i > e.speed THEN Out(e, <<>>, ev)
    ELSE LET result == AirNextTile(e.tile, e.targetTile, chances[i])
         IN  IF result = NoTile
             THEN Out(DeleteUnit([e EXCEPT !.active = FALSE,
                                           !.targetDeleted = TRUE]),
                      <<>>, ev \o <<"deleteTarget", "delete">>)
             ELSE SAMMissileMove([e EXCEPT !.tile = result], i + 1, chances,
                                 ev \o <<"move">>)

\* a check that lets a missile fly at its owner's own units
TargetInvalidButOwn(e, in) ==
    ~in.targetActive \/ ~in.launcherActive \/ ~in.targetWhitelisted
\* the check that the target is valid for interception
TargetInvalid(e, in) ==
    \/ ~in.targetActive
    \/ ~in.launcherActive
    \/ in.targetOwner = e.owner
    \/ ~in.targetWhitelisted

SAMMissileTick(e0, in) ==
    LET e1 == IF e0.spawned THEN e0
              ELSE [e0 EXCEPT !.spawned = TRUE, !.unitAlive = TRUE, !.tile = e0.spawn]
        ev1 == IF e0.spawned THEN <<>> ELSE <<"build">>
    IN
    IF ~UnitIsActive(e1) THEN Out([e1 EXCEPT !.active = FALSE], <<>>, ev1)
    ELSE IF TargetInvalid(e1, in)
    THEN Out([DeleteUnit(e1) EXCEPT !.active = FALSE], <<>>,
             ev1 \o <<"delete">>)
    ELSE SAMMissileMove(e1, 1, in.chances, ev1)

(* ---- AirfieldExecution ---- *)

CheckPeriod == 10

NewAirfield(player, tile) ==
    [kind |-> "Airfield", active |-> TRUE, player |-> player, tile |-> tile,
     inited |-> FALSE, spawned |-> FALSE, unitAlive |-> FALSE, unitOwner |-> player,
     unitTile |-> NoTile, checkOffset |-> 0, spawnTicker |-> 0,
     fighterSpawnTicker |-> 0]

AirfieldInit(e, now) ==
    [e EXCEPT !.inited = TRUE, !.checkOffset = now % CheckPeriod]

(* ---- FighterJetExecution ---- *)

NewFighterJet(owner, patrolTile) ==
    [kind |-> "FighterJet", owner |-> owner, patrolTile |-> patrolTile,
     spawned |-> FALSE, unitAlive |-> FALSE, hasTarget |-> FALSE]

\* init() builds the jet; a rejected canBuild leaves this.fighterJet undefined
FighterJetInit(e, now, spawn) ==
    IF Falsy(spawn) THEN e
    ELSE [e EXCEPT !.spawned = TRUE, !.unitAlive = TRUE]

\* an execution whose class is not part of the modelled sources (ShellExecution,
\* CityExecution, ...): it only stays registered until it reports inactive
NewOpaque(class) == [kind |-> "Opaque", class |-> class, active |-> TRUE]

\* a test that takes every execution for an initialised one
InitializedAlways(e) == TRUE
\* this.mg, this.random and this.checkOffset are all set
Initialized(e) == e.inited

\* a launch that registers nothing
BomberLaunchDropped(e, in) == <<>>
\* mg.addExecution(new BomberExecution(this.player, airfieldUnit, targetTile))
BomberLaunch(e, in) == <<NewBomber(e.player, e.unitTile, in.targetTile)>>

\* AirfieldExecution.tick
AirfieldTick(e0, in, now) ==
    IF ~Initialized(e0) THEN Throw(e0, <<>>, <<>>)
    ELSE IF ~e0.spawned /\ Falsy(in.spawn)
    THEN Out([e0 EXCEPT !.active = FALSE], <<>>, <<>>)
    ELSE
    LET e1 == IF e0.spawned THEN e0
              ELSE [e0 EXCEPT !.spawned = TRUE, !.unitAlive = TRUE,
                              !.unitOwner = e0.player, !.unitTile = in.spawn]
        ev1 == IF e0.spawned THEN <<>> ELSE <<"build">>
    IN
    IF ~UnitIsActive(e1) THEN Out([e1 EXCEPT !.active = FALSE], <<>>, ev1)
    ELSE
    LET e2 == [e1 EXCEPT !.player = e1.unitOwner]
    IN
    IF (now + e2.checkOffset) % CheckPeriod # 0 THEN Out(e2, <<>>, ev1)
    ELSE IF in.bombersCapped THEN Out(e2, <<>>, ev1)
    ELSE
    LET cargo == IF in.cargoChance /\ in.destField # NoTile
                 THEN <<NewCargoPlane(e2.player, e2.unitTile, in.destField)>>
                 ELSE <<>>
        e3 == [e2 EXCEPT !.spawnTicker = e2.spawnTicker + 1]
    IN
    IF e3.spawnTicker < cfg.bomberSpawnInterval THEN Out(e3, cargo, ev1)
    ELSE
    LET e4 == [e3 EXCEPT !.spawnTicker = 0]
    IN
    IF in.targetTile = NoTile \/ in.targetTile = 0 THEN Out(e4, cargo, ev1)
    ELSE
    LET bomber == BomberLaunch(e4, in)
        e5 == [e4 EXCEPT !.fighterSpawnTicker = e4.fighterSpawnTicker + 1]
    IN
    IF e5.fighterSpawnTicker < cfg.fighterJetSpawnInterval
    THEN Out(e5, cargo \o bomber, ev1)
    ELSE
    LET e6 == [e5 EXCEPT !.fighterSpawnTicker = 0]
    IN
    IF in.fightersCapped \/ ~in.enemyAirUnits THEN Out(e6, cargo \o bomber, ev1)
    ELSE Out(e6, cargo \o bomber \o <<NewFighterJet(e6.player, e6.unitTile)>>, ev1)

\* FighterJetExecution.tick (the variant with the dogfight band); what the jet
\* sees of the world (health, a target in range, its distance) is in `in`
FighterJetTick(e, in, now) ==
    IF ~e.spawned THEN Throw(e, <<>>, <<>>)
    ELSE IF in.healthDepleted
    THEN Out([e EXCEPT !.unitAlive = FALSE], <<>>, <<"delete">>)
    ELSE IF ~in.hasTarget
    THEN Out([e EXCEPT !.hasTarget = FALSE], <<>>, <<"move">>)
    ELSE IF in.targetReached
    THEN Out([e EXCEPT !.hasTarget = FALSE], <<>>, <<"move">>)
    ELSE IF now % cfg.fighterJetAttackRate = 0
    THEN Out([e EXCEPT !.hasTarget = TRUE], <<NewOpaque("Shell")>>, <<"move">>)
    ELSE Out([e EXCEPT !.hasTarget = TRUE], <<>>, <<"move">>)

(* ---- MoveFighterJetExecution ---- *)

NewMoveFighterJet(owner, unitId, position) ==
    [kind |-> "MoveFighterJet", owner |-> owner, unitId |-> unitId,
     position |-> position]

(* ---- ConstructionExecution ---- *)

NoDuration == -1       \* info.constructionDuration === undefined
SupportedTypes == {"Airfield", "FighterJet", "City"}
ConstructionTypes == SupportedTypes \cup {"TradeShip"}

NewConstruction(player, tile, type, duration) ==
    [kind |-> "Construction", active |-> TRUE, player |-> player, tile |-> tile,
     constructionType |-> type, duration |-> duration,
     spawned |-> FALSE, unitAlive |-> FALSE, unitOwner |-> player,
     ticksUntilComplete |-> 0, cost |-> 0]

ConstructionInit(e, now) == e

\* the gold movements of a tick, in order: who, how much (negative: removed),
\* and how many executions the tick had registered before
WithGold(r, player, amount) ==
    [gold |-> <<[player |-> player, amount |-> amount, registered |-> 0]>>] @@ r

GoldOf(r) == IF "gold" \in DOMAIN r THEN r.gold ELSE <<>>

\* a refund of what the unit costs at completion
RefundAtTodaysCost(e, in) == in.cost
\* this.player.addGold(this.cost)
Refund(e, in) == e.cost

\* a completion that registers nothing
CompleteConstructionNothing(e) == <<>>
\* completeConstruction: the execution registered for the finished unit
CompleteConstruction(e) ==
    CASE e.constructionType = "Airfield" -> <<NewAirfield(e.player, e.tile)>>
      [] e.constructionType = "FighterJet" -> <<NewFighterJet(e.player, e.tile)>>
      [] OTHER -> <<NewOpaque(e.constructionType)>>

ConstructionTick(e0, in) ==
    IF ~e0.spawned
    THEN IF e0.duration = NoDuration
         THEN IF e0.constructionType \in SupportedTypes
              THEN Out([e0 EXCEPT !.active = FALSE], CompleteConstruction(e0), <<>>)
              ELSE Throw(e0, <<>>, <<>>)
         ELSE IF in.spawn = NoTile
         THEN Out([e0 EXCEPT !.active = FALSE], <<>>, <<>>)
         ELSE WithGold(Out([e0 EXCEPT !.spawned = TRUE, !.unitAlive = TRUE,
                                      !.unitOwner = e0.player,
                                      !.ticksUntilComplete = e0.duration,
                                      !.cost = in.cost],
                           <<>>, <<"build", "removeGold">>),
                       e0.player, -in.cost)
    ELSE IF ~UnitIsActive(e0) THEN Out([e0 EXCEPT !.active = FALSE], <<>>, <<>>)
    ELSE
    LET e1 == [e0 EXCEPT !.player = e0.unitOwner]
    IN
    IF e1.ticksUntilComplete = 0
    THEN LET e2 == DeleteUnit(e1)
         IN  IF e2.constructionType \in SupportedTypes
             THEN WithGold(Out([e2 EXCEPT !.active = FALSE],
                               CompleteConstruction(e2), <<"delete", "addGold">>),
                           e2.player, Refund(e2, in))
             ELSE WithGold(Throw(e2, <<>>, <<"delete", "addGold">>),
                           e2.player, Refund(e2, in))
    ELSE Out([e1 EXCEPT !.ticksUntilComplete = e1.ticksUntilComplete - 1], <<>>, <<>>)

(* ---- the Execution interface ---- *)

Bool == {TRUE, FALSE}

\* isActive()
IsActive(e) ==
    CASE e.kind = "FighterJet" -> e.spawned /\ e.unitAlive
      [] e.kind = "MoveFighterJet" -> FALSE
      [] OTHER -> e.active

\* what the collaborators may answer during one tick() of e
TickInputs(e) ==
    CASE e.kind = "Bomber" -> [spawn : {NoTile, e.airfieldTile}]
      [] e.kind = "CargoPlane" ->
            [spawn : {NoTile, e.srcTile}, srcOwner : Players, dstOwner : Players,
             dstActive : Bool, canTrade : Bool,
             airfields : {<<>>, <<e.srcTile>>, <<e.dstTile, e.srcTile>>,
                          <<cfg.w * cfg.h - 1, cfg.w - 1>>}]
      [] e.kind = "SAMMissile" ->
            [targetActive : Bool, launcherActive : Bool, targetOwner : Players,
             targetWhitelisted : Bool, chances : [1 .. e.speed -> Bool]]
      [] e.kind = "Airfield" ->
            [spawn : {NoTile, e.tile}, bombersCapped : Bool, cargoChance : Bool,
             destField : {NoTile, cfg.w * cfg.h - 1},
             targetTile : {NoTile, cfg.w - 1},
             fightersCapped : Bool, enemyAirUnits : Bool]
      [] e.kind = "FighterJet" ->
            [healthDepleted : Bool, hasTarget : Bool, targetReached : Bool]
      [] e.kind = "Construction" -> [spawn : {NoTile, e.tile}, cost : {1}]
      [] e.kind = "Opaque" -> [ends : Bool]
      [] OTHER -> {[none |-> TRUE]}

\* tick(ticks)
ExecTick(e, in, now) ==
    CASE e.kind = "Bomber" -> BomberTick(e, in)
      [] e.kind = "CargoPlane" -> CargoPlaneTick(e, in)
      [] e.kind = "SAMMissile" -> SAMMissileTick(e, in)
      [] e.kind = "Airfield" -> AirfieldTick(e, in, now)
      [] e.kind = "FighterJet" -> FighterJetTick(e, in, now)
      [] e.kind = "Construction" -> ConstructionTick(e, in)
      [] e.kind = "Opaque" -> Out([e EXCEPT !.active = ~in.ends], <<>>, <<>>)
      [] OTHER -> Out(e, <<>>, <<>>)

\* what canBuild may answer during init(mg, ticks) of e
InitInputs(e) ==
    IF e.kind = "FighterJet" THEN {NoTile, e.patrolTile} ELSE {NoTile}

\* init(mg, ticks)
ExecInit(e, now, spawn) ==
    CASE e.kind = "Bomber" -> BomberInit(e, now)
      [] e.kind = "CargoPlane" -> CargoPlaneInit(e, now)
      [] e.kind = "SAMMissile" -> SAMMissileInit(e, now)
      [] e.kind = "Airfield" -> AirfieldInit(e, now)
      [] e.kind = "FighterJet" -> FighterJetInit(e, now, spawn)
      [] e.kind = "Construction" -> ConstructionInit(e, now)
      [] OTHER -> e

-----------------------------------------------------------------------------
(* PathFinder.  The graph search it drives (AStar) is a time-sliced search    *)
(* over a map that is one row of tiles with a single impassable tile: a        *)
(* search from src to dst has to expand one node per tile between them, each   *)
(* compute() expands cfg.iterations nodes, and after cfg.maxTries calls        *)
(* without a route the search has failed for good.  NoTile stands for null.    *)

\* no tile of the stretch from a to b is the impassable one
Reachable(a, b) ==
    ~(cfg.wall >= (IF a < b THEN a ELSE b) /\ cfg.wall <= (IF a < b THEN b ELSE a))

SearchCost(a, b) == ManhattanDist(a, b)

NoAStar == [src |-> NoTile, dst |-> NoTile, expanded |-> 0, tries |-> 0,
            state |-> "none"]

NewAStar(curr, dst) ==
    [src |-> curr, dst |-> dst, expanded |-> 0, tries |-> 0, state |-> "searching"]

\* AStar.compute(): one bounded increment of the search
Compute(a) ==
    IF a.state = "failed" THEN [aStar |-> a, result |-> "PathNotFound"]
    ELSE IF a.state = "found" THEN [aStar |-> a, result |-> "Completed"]
    ELSE LET expanded == a.expanded + cfg.iterations
             tries == a.tries + 1
         IN  IF Reachable(a.src, a.dst) /\ expanded >= SearchCost(a.src, a.dst)
             THEN [aStar |-> [a EXCEPT !.expanded = expanded, !.tries = tries,
                                       !.state = "found"],
                   result |-> "Completed"]
             ELSE IF tries >= cfg.maxTries
             THEN [aStar |-> [a EXCEPT !.expanded = expanded, !.tries = tries,
                                       !.state = "failed"],
                   result |-> "PathNotFound"]
             ELSE [aStar |-> [a EXCEPT !.expanded = expanded, !.tries = tries],
                   result |-> "Pending"]

\* AStar.reconstructPath(): the tiles from src to dst, both included
AStarReconstructPath(a) ==
    [k \in 1 .. (Abs(a.dst - a.src) + 1) |->
        IF a.dst >= a.src THEN a.src + (k - 1) ELSE a.src - (k - 1)]

\* the fields of a PathFinder after construction; hasPath is `path !== null`
NewPathFinder ==
    [curr |-> NoTile, dst |-> NoTile, path |-> <<>>, hasPath |-> FALSE,
     aStar |-> NoAStar, computeFinished |-> TRUE]

\* shouldRecompute with the widest tolerance at every distance
ShouldRecomputeFlat(p, curr, dst) ==
    \/ ~p.hasPath \/ p.curr = NoTile \/ p.dst = NoTile
    \/ ManhattanDist(p.dst, dst) > 10

\* shouldRecompute with no tolerance at any distance
ShouldRecomputeOnAnyMove(p, curr, dst) ==
    \/ ~p.hasPath \/ p.curr = NoTile \/ p.dst = NoTile
    \/ ManhattanDist(p.dst, dst) > 0

ShouldRecompute(p, curr, dst) ==
    IF ~p.hasPath \/ p.curr = NoTile \/ p.dst = NoTile THEN TRUE
    ELSE LET dist == ManhattanDist(curr, dst)
             tolerance == IF dist > 50 THEN 10 ELSE IF dist > 25 THEN 5 ELSE 0
         IN  ManhattanDist(p.dst, dst) > tolerance

\* a restart that leaves the old route in the cache
StartSearchKeepsRoute(p, curr, dst) ==
    [p EXCEPT !.curr = curr, !.dst = dst, !.aStar = NewAStar(curr, dst),
              !.computeFinished = FALSE]

\* the recompute branch of nextTile, up to its recursive call
StartSearch(p, curr, dst) ==
    [p EXCEPT !.curr = curr, !.dst = dst, !.path = <<>>, !.hasPath = FALSE,
              !.aStar = NewAStar(curr, dst), !.computeFinished = FALSE]

\* a shift() that hands out the head and leaves it in the route
ShiftKeepsHead(path) == path

\* what Array.shift() leaves of a non-empty array
Shift(path) == Tail(path)

\* a close-enough test that ignores the bound it is given
CloseEnoughExact(curr, dst, dist) == ManhattanDist(curr, dst) < 1

\* a close-enough test that is one tile too strict
CloseEnoughButOne(curr, dst, dist) == ManhattanDist(curr, dst) < dist - 1

CloseEnough(curr, dst, dist) == ManhattanDist(curr, dst) < dist

\* the Completed case of the switch, up to its recursive call
OnCompleted(p, a) ==
    [p EXCEPT !.aStar = a, !.computeFinished = TRUE,
              !.path = Shift(AStarReconstructPath(a)), !.hasPath = TRUE]

\* a PathNotFound case that marks the computation finished
OnPathNotFoundFinishes(p, a) == [p EXCEPT !.aStar = a, !.computeFinished = TRUE]

\* the PathNotFound case of the switch
OnPathNotFound(p, a) == [p EXCEPT !.aStar = a]

\* the result of a call: the PathFinder it leaves, the AStarResult, how many
\* searches the call created and how many compute() calls it made
Res(p, type, node) ==
    [pf |-> p, type |-> type, node |-> node, searches |-> 0, computes |-> 0,
     threw |-> FALSE]

RECURSIVE NextTile(_, _, _, _)
NextTile(p, curr, dst, dist) ==
    IF curr = NoTile THEN Res(p, "PathNotFound", NoTile)
    ELSE IF dst = NoTile THEN Res(p, "PathNotFound", NoTile)
    ELSE IF CloseEnough(curr, dst, dist) THEN Res(p, "Completed", curr)
    ELSE IF p.computeFinished
    THEN IF ShouldRecompute(p, curr, dst)
         THEN LET r == NextTile(StartSearch(p, curr, dst), curr, dst, 1)
              IN  [r EXCEPT !.searches = @ + 1]
         ELSE IF p.path = <<>>
              THEN [Res(p, "None", NoTile) EXCEPT !.threw = TRUE]
              ELSE Res([p EXCEPT !.path = Shift(@)], "NextTile", Head(p.path))
    ELSE LET c == Compute(p.aStar)
             r == CASE c.result = "Completed" ->
                           NextTile(OnCompleted(p, c.aStar), curr, dst, 1)
                    [] c.result = "Pending" ->
                           Res([p EXCEPT !.aStar = c.aStar], "Pending", NoTile)
                    [] OTHER ->
                           Res(OnPathNotFound(p, c.aStar), "PathNotFound", NoTile)
         IN  [r EXCEPT !.computes = @ + 1]

\* PathFinder.reconstructPath()
PFReconstructPath(p) == IF ~p.hasPath THEN <<>> ELSE p.path

-----------------------------------------------------------------------------
(* One execution driven on its own: tick() is called once per game tick,      *)
(* whether or not the execution still reports active, and between ticks the   *)
(* rest of the game may destroy or capture its unit.                          *)

NoCall ==
    [curr |-> NoTile, dst |-> NoTile, dist |-> 1, type |-> "None", node |-> NoTile,
     searches |-> 0, computes |-> 0, threw |-> FALSE, before |-> NewPathFinder]

NoWalker == [pos |-> NoTile, dst |-> NoTile, dist |-> 1, result |-> "None"]

NoProbe == [kind |-> "None"]

PFIdle ==
    /\ pf = NewPathFinder
    /\ last = NoCall
    /\ walker = NoWalker
    /\ probe = NoProbe

SchedIdle ==
    /\ unInitExecs = <<>>
    /\ phase = "idle"
    /\ idx = 0
    /\ nextId = 0
    /\ hist = <<>>
    /\ tickedNow = <<>>
    /\ eligible = <<>>

ExecConfigs ==
    [w : {8}, h : {2}, bomberPayload : 0 .. MaxPayload, bomberDropCadence : {2},
     bomberSpawnInterval : {1, 2}, fighterJetSpawnInterval : {1, 2},
     fighterJetAttackRate : {2}, numSpawnPhaseTurns : {0},
     iterations : {1}, maxTries : {1}]

\* the executions put under test, as their constructors leave them
ExecsUnderTest ==
    {NewBomber("P1", 1, 7), NewCargoPlane("P1", 1, 7),
     NewSAMMissile(1, "P1", 10, 2), NewAirfield("P1", 1)}
    \cup {NewConstruction("P1", 1, t, d) :
            t \in ConstructionTypes, d \in {NoDuration} \cup (0 .. MaxDuration)}

StartTicks == {0, 9}

InitExec ==
    /\ cfg \in ExecConfigs
    /\ ticks \in StartTicks
    /\ \E e \in ExecsUnderTest : execs = <<ExecInit(e, ticks, NoTile)>>
    /\ SchedIdle
    /\ PFIdle

HarnessTick ==
    /\ ticks < 9 + MaxHarnessTicks
    /\ \E in \in TickInputs(execs[1]) :
          execs' = <<ExecTick(execs[1], in, ticks + 1).e>>
    /\ ticks' = ticks + 1
    /\ UNCHANGED <<cfg, unInitExecs, phase, idx, nextId, hist, tickedNow, eligible, pfVars, probe>>

\* the unit is destroyed by another player's unit
HarnessDestroy ==
    /\ execs[1].spawned /\ execs[1].unitAlive
    /\ execs' = <<[execs[1] EXCEPT !.unitAlive = FALSE]>>
    /\ UNCHANGED <<cfg, ticks, unInitExecs, phase, idx, nextId, hist, tickedNow, eligible,
                   pfVars, probe>>

\* the unit is captured by the other player
HarnessCapture ==
    /\ execs[1].kind \in {"CargoPlane", "Airfield", "Construction"}
    /\ execs[1].spawned /\ execs[1].unitAlive
    /\ execs' = <<[execs[1] EXCEPT !.unitOwner = Other(execs[1].unitOwner)]>>
    /\ UNCHANGED <<cfg, ticks, unInitExecs, phase, idx, nextId, hist, tickedNow, eligible,
                   pfVars, probe>>

NextExec == HarnessTick \/ HarnessDestroy \/ HarnessCapture

SpecExec == InitExec /\ [][NextExec]_vars

-----------------------------------------------------------------------------
(* Execution scheduler (Game.addExecution, the tick loop).                     *)

\* "is this an active spawn-phase tick"
InSpawnPhaseAt(t) == t <= cfg.numSpawnPhaseTurns
InSpawnPhase == InSpawnPhaseAt(ticks)

\* activeDuringSpawnPhase(): every execution of the sources answers false
ActiveDuringSpawnPhase(e) == FALSE

\* whether the tick loop calls tick() on e
DueTick(e) == (~InSpawnPhase \/ ActiveDuringSpawnPhase(e)) /\ IsActive(e)

Ids(seq) == [k \in 1 .. Len(seq) |-> seq[k].id]

\* the i-th execution registered from now on, and its history entry
Registered(es, i) == [id |-> nextId + i] @@ es[i]
NewHist(es) ==
    [i \in 1 .. Len(es) |->
        [reg |-> ticks, during |-> phase = "ticking", first |-> -1,
         gone |-> FALSE, idleFirst |-> FALSE]]

\* an addExecution that pushes straight onto the list the tick loop walks
EnqueueIntoLive(live, pending, new) == [live |-> live \o new, pending |-> pending]
\* addExecution: the newcomers wait in the pending queue
Enqueue(live, pending, new) == [live |-> live, pending |-> pending \o new]

\* addExecution, once for each execution of es, in order
AddExecution(live, es) ==
    LET q == Enqueue(live, unInitExecs, [i \in 1 .. Len(es) |-> Registered(es, i)])
    IN  /\ nextId + Len(es) <= MaxExecs
        /\ execs' = q.live
        /\ unInitExecs' = q.pending
        /\ nextId' = nextId + Len(es)
        /\ hist' = hist \o NewHist(es)

\* the intents the players may send between two ticks
Intents ==
    {NewAirfield("P1", 1), NewMoveFighterJet("P1", 2, 3),
     NewConstruction("P1", 9, "FighterJet", NoDuration),
     NewConstruction("P1", 9, "City", 0)}
    \cup {NewConstruction("P1", 9, "Airfield", d) : d \in 1 .. MaxDuration}

RegisterIntent ==
    /\ phase = "idle"
    /\ Cardinality({i \in 1 .. Len(hist) : ~hist[i].during}) < MaxIntents
    /\ \E e \in Intents : AddExecution(execs, <<e>>)
    /\ UNCHANGED <<cfg, ticks, phase, idx, tickedNow, eligible, pfVars, probe>>

BeginTick ==
    /\ phase = "idle"
    /\ ticks < MaxTicks
    /\ phase' = "ticking"
    /\ idx' = 1
    /\ tickedNow' = <<>>
    /\ eligible' = Ids(SelectSeq(execs, DueTick))
    /\ UNCHANGED <<cfg, ticks, execs, unInitExecs, nextId, hist, pfVars, probe>>

\* the executions the loop goes on to after position i
NextIndexSkips(i) == i + 2
NextIndex(i) == i + 1

\* the loop body: tick() on the next live execution, if it is due one
TickNext ==
    /\ phase = "ticking"
    /\ idx <= Len(execs)
    /\ LET e == execs[idx]
       IN  IF DueTick(e)
           THEN \E r \in {ExecTick(e, in, ticks) : in \in TickInputs(e)} :
                   /\ ~r.threw
                   /\ nextId + Len(r.adds) <= MaxExecs
                   /\ LET q == Enqueue([execs EXCEPT ![idx] = r.e], unInitExecs,
                                       [i \in 1 .. Len(r.adds) |->
                                           Registered(r.adds, i)])
                      IN  execs' = q.live /\ unInitExecs' = q.pending
                   /\ nextId' = nextId + Len(r.adds)
                   /\ hist' = [hist EXCEPT
                                 ![e.id].first = IF @ = -1 THEN ticks ELSE @]
                              \o NewHist(r.adds)
                   /\ tickedNow' = Append(tickedNow, e.id)
           ELSE /\ hist' = [hist EXCEPT
                              ![e.id].idleFirst = @ \/ hist[e.id].first = -1]
                /\ UNCHANGED <<execs, unInitExecs, nextId, tickedNow>>
    /\ idx' = NextIndex(idx)
    /\ UNCHANGED <<cfg, ticks, phase, eligible, pfVars, probe>>

\* MoveFighterJetExecution.init: the owner's live jet gets its new patrol tile
MovePatrol(seq, m) ==
    [k \in 1 .. Len(seq) |->
        IF /\ seq[k].kind = "FighterJet" /\ seq[k].id = m.unitId
           /\ seq[k].owner = m.owner /\ seq[k].spawned /\ seq[k].unitAlive
        THEN [seq[k] EXCEPT !.patrolTile = m.position]
        ELSE seq[k]]

RECURSIVE ApplyMoves(_, _)
ApplyMoves(seq, pending) ==
    IF pending = <<>> THEN seq
    ELSE ApplyMoves(IF Head(pending).kind = "MoveFighterJet"
                    THEN MovePatrol(seq, Head(pending)) ELSE seq,
                    Tail(pending))

\* the live set after a tick: every execution that reports inactive is removed
RemoveInactive(seq) == SelectSeq(seq, IsActive)

\* the merge that drops the inactive before the newcomers join
MergeAfterRemoval(old, new) == RemoveInactive(old) \o new
\* the end of a tick: the newcomers join the live set, the inactive leave it
MergeAndRemove(old, new) == RemoveInactive(old \o new)

\* after the last tick() of the tick: init() on every pending execution, merge
EndTick ==
    /\ phase = "ticking"
    /\ idx > Len(execs)
    /\ \E spawn \in [1 .. Len(unInitExecs) -> {0, 1}] :
          LET inited == [k \in 1 .. Len(unInitExecs) |->
                            ExecInit(unInitExecs[k], ticks,
                                     IF spawn[k] = 1 /\ unInitExecs[k].kind = "FighterJet"
                                     THEN unInitExecs[k].patrolTile ELSE NoTile)]
              all == ApplyMoves(execs, unInitExecs) \o inited
          IN  /\ \A k \in 1 .. Len(unInitExecs) :
                    unInitExecs[k].kind # "FighterJet" => spawn[k] = 0
              /\ execs' = MergeAndRemove(ApplyMoves(execs, unInitExecs), inited)
              /\ hist' = [i \in 1 .. Len(hist) |->
                            IF \E k \in 1 .. Len(all) :
                                  all[k].id = i /\ ~IsActive(all[k])
                            THEN [hist[i] EXCEPT !.gone = TRUE,
                                      !.idleFirst = @ \/ hist[i].first = -1]
                            ELSE hist[i]]
    /\ unInitExecs' = <<>>
    /\ ticks' = ticks + 1
    /\ phase' = "idle"
    /\ idx' = 0
    /\ tickedNow' = <<>>
    /\ eligible' = <<>>
    /\ UNCHANGED <<cfg, nextId, pfVars, probe>>

\* between two ticks another player's unit destroys the unit of a live execution
DestroyUnit ==
    /\ phase = "idle"
    /\ \E k \in 1 .. Len(execs) :
          /\ execs[k].kind \in {"Bomber", "CargoPlane", "Airfield", "FighterJet",
                                "Construction"}
          /\ execs[k].spawned /\ execs[k].unitAlive
          /\ execs' = [execs EXCEPT ![k].unitAlive = FALSE]
    /\ UNCHANGED <<cfg, ticks, unInitExecs, phase, idx, nextId, hist, tickedNow,
                   eligible, pfVars, probe>>

SchedConfigs ==
    [w : {8}, h : {2}, bomberPayload : {1}, bomberDropCadence : {2},
     bomberSpawnInterval : {1}, fighterJetSpawnInterval : {1},
     fighterJetAttackRate : {2}, numSpawnPhaseTurns : {1},
     iterations : {1}, maxTries : {1}]

InitSched ==
    /\ cfg \in SchedConfigs
    /\ ticks = 0
    /\ execs = <<>>
    /\ SchedIdle
    /\ PFIdle

NextSched == RegisterIntent \/ BeginTick \/ TickNext \/ EndTick \/ DestroyUnit

SpecSched == InitSched /\ [][NextSched]_vars

-----------------------------------------------------------------------------
(* Claims about the scheduler *)

\* C1: an execution registered through addExecution while tick T is processed is
\* not ticked during T; if it is active and not excluded by the spawn phase, its
\* first tick() is in tick T + 1.
C1_SpawnedTickedNextTick ==
    \A i \in 1 .. Len(hist) :
        /\ hist[i].first # -1 => hist[i].first > hist[i].reg
        /\ ( /\ hist[i].during
             /\ ticks > hist[i].reg + 1
             /\ ~InSpawnPhaseAt(hist[i].reg + 1)
             /\ ~hist[i].idleFirst )
           => hist[i].first = hist[i].reg + 1

\* a bomber launched by an airfield during a tick had its first tick() one tick later
C1_Witness ==
    \E k \in 1 .. Len(execs) :
        /\ "id" \in DOMAIN execs[k]
        /\ execs[k].kind = "Bomber"
        /\ hist[execs[k].id].during
        /\ hist[execs[k].id].first = hist[execs[k].id].reg + 1

IsPrefix(s, t) == Len(s) <= Len(t) /\ \A k \in 1 .. Len(s) : s[k] = t[k]

\* C2: within one tick, tick() is called exactly once on every live execution that
\* is active and not excluded by the spawn phase, in registration order.
C2_OncePerTickInOrder ==
    phase = "ticking" =>
        /\ \A a, b \in 1 .. Len(tickedNow) : a < b => tickedNow[a] < tickedNow[b]
        /\ IsPrefix(tickedNow, eligible)
        /\ idx > Len(execs) => tickedNow = eligible

\* the loop of a tick has ended: two executions were ticked, in the order of
\* their registration, and one that had stopped reporting active was passed over
C2_Witness ==
    /\ phase = "ticking" /\ idx > Len(execs)
    /\ Len(tickedNow) >= 2 /\ Len(execs) > Len(tickedNow)
    /\ tickedNow = eligible

C4_ActiveNeverReturns ==
    [][~IsActive(execs[1]) => ~IsActive(execs'[1])]_vars

\* a bomber execution that gave up on a rejected spawn, was ticked again, built its
\* bomber then, and still reports inactive
C4_Witness ==
    /\ phase = "idle" /\ nextId = 0 /\ Len(execs) = 1
    /\ execs[1].kind = "Bomber"
    /\ ~execs[1].active /\ execs[1].spawned /\ execs[1].unitAlive

-----------------------------------------------------------------------------
(* A PathFinder called with arbitrary arguments *)

MapWidth == 75
MaxTries == 2

PFConfigs ==
    [w : {MapWidth}, h : {1}, wall : {MapWidth - 3}, iterations : {30},
     maxTries : 1 .. MaxTries]

PFCurrs == {NoTile, 0, 30}
PFDsts == {NoTile, 0, 1, 30, 35, 36, 60, 65, 71, 74}
PFDists == {1, 2}

\* the record of a call: its arguments, the PathFinder before it, its result
Called(p, curr, dst, dist, r) ==
    [curr |-> curr, dst |-> dst, dist |-> dist, type |-> r.type, node |-> r.node,
     searches |-> r.searches, computes |-> r.computes, threw |-> r.threw,
     before |-> p]

InitPF ==
    /\ cfg \in PFConfigs
    /\ pf = NewPathFinder
    /\ last = NoCall
    /\ walker = NoWalker
    /\ probe = NoProbe
    /\ ticks = 0 /\ execs = <<>>
    /\ SchedIdle

CallNextTile ==
    /\ \E curr \in PFCurrs, dst \in PFDsts, dist \in PFDists :
          LET r == NextTile(pf, curr, dst, dist)
          IN  /\ pf' = r.pf
              /\ last' = Called(pf, curr, dst, dist, r)
    /\ UNCHANGED <<cfg, walker, schedVars, probe>>

NextPF == CallNextTile

SpecPF == InitPF /\ [][NextPF]_vars

-----------------------------------------------------------------------------
(* A caller that walks: it calls nextTile(current, B) again and again, moves  *)
(* to each tile returned as NextTile and stays where it is otherwise.         *)

WalkStarts == {0, 30, 59}
WalkDsts == {1, 30, 36, 60, 65, 74}

InitPFWalk ==
    /\ cfg \in PFConfigs
    /\ pf = NewPathFinder
    /\ last = NoCall
    /\ \E a \in WalkStarts, b \in WalkDsts, dist \in PFDists :
          walker = [pos |-> a, dst |-> b, dist |-> dist, result |-> "None"]
    /\ probe = NoProbe
    /\ ticks = 0 /\ execs = <<>>
    /\ SchedIdle

WalkStep ==
    /\ walker.result \notin {"Completed", "Threw"}
    /\ LET r == NextTile(pf, walker.pos, walker.dst, walker.dist)
       IN  /\ pf' = r.pf
           /\ last' = Called(pf, walker.pos, walker.dst, walker.dist, r)
           /\ walker' = [walker EXCEPT
                           !.pos = IF r.type = "NextTile" THEN r.node ELSE @,
                           !.result = IF r.threw THEN "Threw" ELSE r.type]
    /\ UNCHANGED <<cfg, schedVars, probe>>

NextPFWalk == WalkStep

SpecPFWalk == InitPFWalk /\ [][NextPFWalk]_vars /\ WF_vars(NextPFWalk)

-----------------------------------------------------------------------------
(* Claims about the PathFinder *)

\* the last call had two positions that are not null
CalledOnTiles ==
    /\ last.type # "None" \/ last.threw
    /\ last.curr # NoTile /\ last.dst # NoTile

\* C5: for non-null A and B with manhattanDist(A, B) < closeEnoughDistance,
\* nextTile(A, B, closeEnoughDistance) returns Completed with node A without
\* starting a search, whatever state the PathFinder is in.
C5_CloseEnoughCompletes ==
    (CalledOnTiles /\ ManhattanDist(last.curr, last.dst) < last.dist)
    => /\ last.type = "Completed" /\ last.node = last.curr /\ ~last.threw
       /\ last.searches = 0 /\ last.computes = 0
       /\ pf = last.before

\* a close-enough call, off the destination tile, made while a search was running
C5_Witness ==
    /\ CalledOnTiles /\ ManhattanDist(last.curr, last.dst) < last.dist
    /\ last.curr # last.dst
    /\ ~last.before.computeFinished
    /\ last.type = "Completed"

NoWork == pf.computeFinished /\ ~pf.hasPath
Searching == ~pf.computeFinished
RouteReady == pf.hasPath

\* C6: whenever a search is in progress (computeFinished is false) the cached route
\* is null, so exactly one of no work, searching and route-ready holds.
C6_RouteXorSearch ==
    /\ ~pf.computeFinished => (~pf.hasPath /\ pf.path = <<>>)
    /\ \/ (NoWork /\ ~Searching /\ ~RouteReady)
       \/ (~NoWork /\ Searching /\ ~RouteReady)
       \/ (~NoWork /\ ~Searching /\ RouteReady)

\* a search is running that replaced a cached route
C6_Witness ==
    /\ ~pf.computeFinished /\ last.searches = 1 /\ last.type = "Pending"
    /\ last.before.hasPath /\ last.before.path # <<>>

\* the tolerance of the recompute policy, as the specification words it
Tolerance(dist) == IF dist > 50 THEN 10 ELSE IF dist > 25 THEN 5 ELSE 0

\* the last call found a cached route, for destination last.before.dst
HeldRoute == CalledOnTiles /\ last.before.computeFinished /\ last.before.hasPath

WithinTolerance ==
    ManhattanDist(last.before.dst, last.dst)
        <= Tolerance(ManhattanDist(last.curr, last.dst))

\* the continuation of the cached route: its head is returned, nothing is searched,
\* and the destination the route was computed for stays the reference
RouteContinues ==
    /\ last.searches = 0 /\ last.computes = 0
    /\ last.type = "NextTile"
    /\ last.before.path # <<>> /\ last.node = Head(last.before.path)
    /\ pf.path = Tail(last.before.path)
    /\ pf.dst = last.before.dst /\ pf.curr = last.before.curr

\* C7 as stated: with a cached route for D0 and a destination D within the
\* tolerance of D0, the call starts no search and returns NextTile with the head
\* of the cached route.
C7_AsStated == (HeldRoute /\ WithinTolerance) => RouteContinues

\* C7: with a cached route for D0 and a destination D within the tolerance of D0,
\* no search is started and D0 stays the reference destination; unless curr is
\* within closeEnoughDistance of D (the call returns Completed) or the cached
\* route is used up (the call fails), the call returns NextTile with the head of
\* the cached route.
C7_WithinToleranceContinues ==
    (HeldRoute /\ WithinTolerance)
    => /\ last.searches = 0 /\ last.computes = 0
       /\ pf.dst = last.before.dst /\ pf.curr = last.before.curr
       /\ IF CloseEnough(last.curr, last.dst, last.dist)
          THEN last.type = "Completed" /\ pf = last.before
          ELSE IF last.before.path = <<>>
          THEN last.threw
          ELSE RouteContinues

\* a route for 60 is followed towards 65, from more than 50 tiles away
C7_Witness ==
    /\ HeldRoute /\ WithinTolerance
    /\ last.dst # last.before.dst
    /\ RouteContinues

\* the fresh search rooted at the arguments of the last call
Restarted ==
    /\ last.searches = 1 /\ last.computes = 1
    /\ pf.curr = last.curr /\ pf.dst = last.dst
    /\ pf.aStar.src = last.curr /\ pf.aStar.dst = last.dst

\* C8 as stated: with a cached route for D0, a destination D beyond the tolerance
\* and curr not within closeEnoughDistance of D, the call discards the route,
\* starts a fresh search rooted at (curr, D) and returns Pending.
C8_AsStated ==
    (HeldRoute /\ ~WithinTolerance /\ ~CloseEnough(last.curr, last.dst, last.dist))
    => /\ Restarted
       /\ last.type = "Pending" /\ ~pf.hasPath

\* C8: with a cached route for D0, a destination D beyond the tolerance and curr
\* not within closeEnoughDistance of D, the call discards the route, starts a
\* fresh search rooted at (curr, D) and runs one increment of it; it returns
\* Pending when the increment leaves the search unfinished, NextTile with the
\* first tile of the new route when the increment finds the route, and
\* PathNotFound when the increment uses up the retry budget.
C8_BeyondToleranceRestarts ==
    (HeldRoute /\ ~WithinTolerance /\ ~CloseEnough(last.curr, last.dst, last.dist))
    => /\ Restarted /\ ~last.threw
       /\ IF /\ Reachable(last.curr, last.dst)
             /\ SearchCost(last.curr, last.dst) <= cfg.iterations
          THEN /\ last.type = "NextTile"
               /\ pf.hasPath /\ pf.computeFinished
               /\ <<last.curr, last.node>> \o pf.path
                    = AStarReconstructPath(NewAStar(last.curr, last.dst))
          ELSE /\ last.type = IF cfg.maxTries <= 1 THEN "PathNotFound" ELSE "Pending"
               /\ ~pf.hasPath /\ ~pf.computeFinished

\* a route was cached, the destination moved beyond the tolerance, and the search
\* the call started is still running when it returns
C8_Witness ==
    /\ HeldRoute /\ ~WithinTolerance
    /\ ~CloseEnough(last.curr, last.dst, last.dist)
    /\ last.before.path # <<>>
    /\ Restarted /\ last.type = "Pending"

\* C10: when the search uses up its retry budget, nextTile returns PathNotFound
\* and throws nothing, and no later call on the same PathFinder starts a search.
C10_PathNotFoundIsFinal ==
    [][ /\ (last'.computes > 0 /\ pf'.aStar.state = "failed")
           => (last'.type = "PathNotFound" /\ ~last'.threw)
        /\ pf.aStar.state = "failed"
           => /\ last'.searches = 0 /\ ~last'.threw
              /\ pf'.aStar = pf.aStar ]_vars

\* after a failed search, a call for another destination got PathNotFound again
C10_Witness ==
    /\ last.before.aStar.state = "failed" /\ pf.aStar.state = "failed"
    /\ CalledOnTiles /\ last.dst # last.before.dst
    /\ last.type = "PathNotFound" /\ last.computes = 1

-----------------------------------------------------------------------------
(* Claims about the walking caller *)

WalkDone ==
    /\ walker.result = "Completed"
    /\ ManhattanDist(walker.pos, walker.dst) < walker.dist

\* the destination can be reached and the walk has not begun
WalkBegins == walker.result = "None" /\ Reachable(walker.pos, walker.dst)

\* the search for the route fits in the retry budget
WithinBudget ==
    SearchCost(walker.pos, walker.dst) <= cfg.iterations * cfg.maxTries

\* neither the cached route nor the distance left to walk grows
NoBacktracking ==
    /\ (pf.hasPath /\ pf'.hasPath) => Len(pf'.path) <= Len(pf.path)
    /\ ManhattanDist(walker'.pos, walker'.dst) <= ManhattanDist(walker.pos, walker.dst)

-----------------------------------------------------------------------------
(* The movers, called again and again by a unit that moves to each tile it is *)
(* handed, on a square map, from every tile to every tile.                    *)

MoveWidth == 6
MaxSpeed == 3

MoveConfigs == [w : {MoveWidth}, h : {MoveWidth}]

\* calls counts the nextTile calls made, up to two; from is the position the last
\* call was made at, curr the position after it
NewMove(kind, curr, dst, speed) ==
    [kind |-> kind, from |-> curr, curr |-> curr, dst |-> dst, speed |-> speed,
     calls |-> 0, arrived |-> FALSE]

Moved(m, result) ==
    [m EXCEPT !.from = m.curr,
              !.curr = IF result = NoTile THEN m.curr ELSE result,
              !.arrived = (result = NoTile),
              !.calls = IF m.calls < 2 THEN m.calls + 1 ELSE 2]

InitMove ==
    /\ cfg \in MoveConfigs
    /\ \E curr \in Tiles, dst \in Tiles :
          \/ \E speed \in 0 .. MaxSpeed : probe = NewMove("Straight", curr, dst, speed)
          \/ probe = NewMove("Air", curr, dst, 1)
    /\ pf = NewPathFinder /\ last = NoCall /\ walker = NoWalker
    /\ ticks = 0 /\ execs = <<>>
    /\ SchedIdle

StraightStep ==
    /\ probe.kind = "Straight" /\ ~probe.arrived
    /\ probe' = Moved(probe, StraightNextTile(probe.curr, probe.dst, probe.speed))
    /\ UNCHANGED <<cfg, schedVars, pfVars>>

AirStep ==
    /\ probe.kind = "Air" /\ ~probe.arrived
    /\ \E coin \in Bool :
          probe' = Moved(probe, AirNextTile(probe.curr, probe.dst, coin))
    /\ UNCHANGED <<cfg, schedVars, pfVars>>

NextMove == StraightStep \/ AirStep

SpecMove == InitMove /\ [][NextMove]_vars

-----------------------------------------------------------------------------
(* Claims about the movers *)

\* C11: StraightPathFinder.nextTile(curr, dst, speed) returns Arrived on the first
\* call whenever speed >= the Euclidean distance from curr to dst, curr = dst
\* included, and never a step.
C11_ArrivedWithinSpeed ==
    ( /\ probe.kind = "Straight" /\ probe.calls >= 1
      /\ probe.speed * probe.speed >= EuclideanDistSquared(probe.from, probe.dst) )
    => probe.arrived /\ probe.curr = probe.from

\* the first call, made exactly speed away from the destination, reported Arrived
C11_Witness ==
    /\ probe.kind = "Straight" /\ probe.calls = 1 /\ probe.arrived
    /\ probe.from # probe.dst
    /\ probe.speed * probe.speed = EuclideanDistSquared(probe.from, probe.dst)

\* the last call returned a tile, and that tile is nearer to dst than the tile the
\* call was made at, and further from dst than speed
StepCameNearer ==
    /\ EuclideanDistSquared(probe.curr, probe.dst)
         < EuclideanDistSquared(probe.from, probe.dst)
    /\ EuclideanDistSquared(probe.curr, probe.dst) > probe.speed * probe.speed

\* C12 as stated: for every speed smaller than the distance, a call that returns
\* a tile returns one strictly nearer to dst.
C12_AsStated ==
    (probe.kind = "Straight" /\ probe.calls >= 1 /\ ~probe.arrived)
    => StepCameNearer

\* C12: for every speed of at least 1 that is smaller than the distance, a call
\* that returns a tile returns one strictly nearer to dst and still further from
\* it than speed; with speed 0 the call returns the tile it was made at.
C12_StepsComeNearer ==
    (probe.kind = "Straight" /\ probe.calls >= 1 /\ ~probe.arrived)
    => IF probe.speed >= 1 THEN StepCameNearer ELSE probe.curr = probe.from

\* a second step taken on a slant: both coordinates changed
C12_Witness ==
    /\ probe.kind = "Straight" /\ probe.calls = 2 /\ ~probe.arrived
    /\ probe.speed >= 1
    /\ X(probe.curr) # X(probe.from) /\ Y(probe.curr) # Y(probe.from)
    /\ StepCameNearer

\* C13: AirPathFinder.nextTile returns Arrived exactly when tile and dst have the
\* same x and the same y; otherwise, whatever the generator draws, it returns a
\* tile that differs from the current one in one coordinate by 1, towards dst, so
\* the Manhattan distance to dst falls by 1 and the step is never the current tile.
C13_AirStepsByOne ==
    (probe.kind = "Air" /\ probe.calls >= 1)
    => /\ probe.arrived <=> probe.from = probe.dst
       /\ ~probe.arrived =>
             /\ probe.curr # probe.from
             /\ Abs(X(probe.curr) - X(probe.from))
                  + Abs(Y(probe.curr) - Y(probe.from)) = 1
             /\ ManhattanDist(probe.curr, probe.dst)
                  = ManhattanDist(probe.from, probe.dst) - 1

\* a step along x made on the row of the destination
C13_Witness ==
    /\ probe.kind = "Air" /\ probe.calls = 2 /\ ~probe.arrived
    /\ Y(probe.from) = Y(probe.dst)
    /\ X(probe.curr) # X(probe.from)

-----------------------------------------------------------------------------
(* FighterJetExecution.findTargetUnit.  The units of the world are a sequence *)
(* of records; a unit is named by its position in it, and 0 is undefined.     *)
(* stance says how the unit stands to the jet's owner: "own", "friendly",     *)
(* "untargetable" (an enemy unit that is not targetable) or "enemy".          *)

\* mg.nearbyUnits(tile, range, types): the units of these types within range,
\* in the order of the world
NearbyUnits(units, tile, range, types) ==
    SelectSeq([k \in 1 .. Len(units) |-> [id |-> k] @@ units[k]],
              LAMBDA u : /\ u.type \in types
                         /\ EuclideanDistSquared(tile, u.tile) <= range * range)

\* the predicate findTargetUnit hands to findClosest
Targetable(u) == u.stance = "enemy"

\* a comparator that orders by distance alone
CompareByDistance(tile, a, b) ==
    EuclideanDistSquared(tile, a.tile) - EuclideanDistSquared(tile, b.tile)

\* the comparator of both sorts: fighter jets first, then the nearer first
CompareTargets(tile, a, b) ==
    IF a.type = "FighterJet" /\ b.type # "FighterJet" THEN -1
    ELSE IF a.type # "FighterJet" /\ b.type = "FighterJet" THEN 1
    ELSE EuclideanDistSquared(tile, a.tile) - EuclideanDistSquared(tile, b.tile)

\* Array.prototype.sort is stable: u goes behind every element that does not
\* compare greater than it
RECURSIVE InsertSorted(_, _, _)
InsertSorted(tile, u, sorted) ==
    IF sorted = <<>> THEN <<u>>
    ELSE IF CompareTargets(tile, u, Head(sorted)) < 0 THEN <<u>> \o sorted
    ELSE <<Head(sorted)>> \o InsertSorted(tile, u, Tail(sorted))

RECURSIVE SortTargets(_, _)
SortTargets(tile, seq) ==
    IF seq = <<>> THEN <<>>
    ELSE InsertSorted(tile, seq[Len(seq)], SortTargets(tile, SubSeq(seq, 1, Len(seq) - 1)))

\* findClosest(startTile, range, unitTypes, mg, predicate)
FindClosest(units, tile, range, types) ==
    SortTargets(tile, SelectSeq(NearbyUnits(units, tile, range, types), Targetable))

\* FighterJetExecution.findTargetUnit: the id of the unit, 0 for undefined
FindTargetUnit(units, tile) ==
    LET closest == FindClosest(units, tile, cfg.fighterJetTargettingRange,
                               {"Bomber", "FighterJet"})
    IN  IF Len(closest) = 0 THEN 0
        ELSE SortTargets(tile, closest)[1].id

MaxCandidates == 2

TargetConfigs == [w : {6}, h : {1}, fighterJetTargettingRange : {3}]

CandidateUnits ==
    [type : {"Bomber", "FighterJet"}, tile : {1, 2, 3, 5},
     stance : {"own", "friendly", "untargetable", "enemy"}]

\* a jet on tile 0 with any previous target, and the units around it
InitTarget ==
    /\ cfg \in TargetConfigs
    /\ \E n \in 0 .. MaxCandidates :
          \E units \in [1 .. n -> CandidateUnits], prev \in 0 .. n :
             probe = [kind |-> "Target", tile |-> 0, units |-> units,
                      target |-> prev, ticked |-> FALSE]
    /\ pf = NewPathFinder /\ last = NoCall /\ walker = NoWalker
    /\ ticks = 0 /\ execs = <<>>
    /\ SchedIdle

\* this.fighterJet.setTargetUnit(this.findTargetUnit()) of tick()
SetTargetUnit ==
    /\ probe.kind = "Target" /\ ~probe.ticked
    /\ probe' = [probe EXCEPT !.target = FindTargetUnit(probe.units, probe.tile),
                              !.ticked = TRUE]
    /\ UNCHANGED <<cfg, schedVars, pfVars>>

NextTarget == SetTargetUnit

SpecTarget == InitTarget /\ [][NextTarget]_vars

\* the eligible candidates in targeting range
EligibleIds ==
    {k \in 1 .. Len(probe.units) :
        /\ probe.units[k].stance = "enemy"
        /\ EuclideanDistSquared(probe.tile, probe.units[k].tile)
             <= cfg.fighterJetTargettingRange * cfg.fighterJetTargettingRange}

\* C14: the target set in a tick is, among the eligible candidates in targeting
\* range, a FighterJet if there is one, however near a Bomber is, and no candidate
\* of its type is nearer to the jet; it replaces whatever the target was before,
\* and is undefined when there is no candidate.
C14_TargetByTypeThenDistance ==
    (probe.kind = "Target" /\ probe.ticked)
    => IF EligibleIds = {} THEN probe.target = 0
       ELSE /\ probe.target \in EligibleIds
            /\ (\E k \in EligibleIds : probe.units[k].type = "FighterJet")
               => probe.units[probe.target].type = "FighterJet"
            /\ \A k \in EligibleIds :
                  probe.units[k].type = probe.units[probe.target].type
                  => EuclideanDistSquared(probe.tile, probe.units[probe.target].tile)
                       <= EuclideanDistSquared(probe.tile, probe.units[k].tile)

\* a FighterJet was chosen although an eligible Bomber is nearer
C14_Witness ==
    /\ probe.kind = "Target" /\ probe.ticked /\ probe.target # 0
    /\ probe.units[probe.target].type = "FighterJet"
    /\ \E k \in EligibleIds :
          /\ probe.units[k].type = "Bomber"
          /\ EuclideanDistSquared(probe.tile, probe.units[k].tile)
               < EuclideanDistSquared(probe.tile, probe.units[probe.target].tile)

-----------------------------------------------------------------------------
(* A bomber that is never shot down: its execution is ticked once per tick    *)
(* until it reports inactive, canBuild accepts the airfield's tile, and the   *)
(* explosions and the deletion it causes are counted as they happen.          *)

MaxFlightTicks == 45
MaxFlightPayload == 3

\* a map 12 wide and 3 high; the airfield is on (1, 1), the targets are on
\* (1, 0), (1, 1), (2, 1), (5, 2), (11, 2) and, ten tiles from the airfield, (11, 1)
FlightConfigs ==
    [w : {12}, h : {3}, bomberPayload : 1 .. MaxFlightPayload,
     bomberDropCadence : {1, 5}]

FlightTargets == {1, 13, 14, 29, 35, 23}

\* the least gap seen so far (0: none yet) and the greatest distance
LeastGap(a, b) == IF a = 0 \/ b < a THEN b ELSE a
Greatest(a, b) == IF b > a THEN b ELSE a

Count(seq, x) == Cardinality({k \in 1 .. Len(seq) : seq[k] = x})

InitFlight ==
    /\ cfg \in FlightConfigs
    /\ ticks = 0
    /\ \E target \in FlightTargets :
          execs = <<BomberInit(NewBomber("P1", 13, target), 0)>>
    /\ probe = [kind |-> "Flight", drops |-> 0, dropsReturning |-> 0,
                deletes |-> 0, deletedAt |-> NoTile, turnedAt |-> -1,
                lastDropAt |-> -1, minGap |-> 0, maxDropDist |-> 0]
    /\ pf = NewPathFinder /\ last = NoCall /\ walker = NoWalker
    /\ SchedIdle

FlightTick ==
    /\ probe.kind = "Flight"
    /\ IsActive(execs[1])
    /\ ticks < MaxFlightTicks
    /\ LET e == execs[1]
           r == BomberTick(e, [spawn |-> e.airfieldTile])
       IN  /\ execs' = <<r.e>>
           /\ probe' = [probe EXCEPT
                  !.drops = @ + Count(r.ev, "drop"),
                  !.dropsReturning = @ + (IF e.returning THEN Count(r.ev, "drop")
                                          ELSE 0),
                  !.deletes = @ + Count(r.ev, "delete"),
                  !.deletedAt = IF Count(r.ev, "delete") > 0 THEN r.e.tile ELSE @,
                  !.turnedAt = IF ~e.returning /\ r.e.returning THEN ticks + 1 ELSE @,
                  !.lastDropAt = IF Count(r.ev, "drop") > 0 THEN ticks ELSE @,
                  !.minGap = IF Count(r.ev, "drop") > 0 /\ probe.lastDropAt # -1
                             THEN LeastGap(@, ticks - probe.lastDropAt) ELSE @,
                  !.maxDropDist = IF Count(r.ev, "drop") > 0
                                  THEN Greatest(@, EuclideanDistSquared(r.e.tile,
                                                                   r.e.targetTile))
                                  ELSE @]
    /\ ticks' = ticks + 1
    /\ UNCHANGED <<cfg, unInitExecs, phase, idx, nextId, hist, tickedNow, eligible,
                   pfVars>>

NextFlight == FlightTick

SpecFlight == InitFlight /\ [][NextFlight]_vars /\ WF_vars(FlightTick)

\* the bomber is back: deleted once, on arrival at the airfield, and the
\* execution is inactive, after exactly bomberPayload drops
FlightOver ==
    /\ ~IsActive(execs[1]) /\ ~execs[1].unitAlive
    /\ execs[1].returning
    /\ probe.drops = cfg.bomberPayload
    /\ probe.deletes = 1
    /\ StraightNextTile(probe.deletedAt, execs[1].airfieldTile, 2) = NoTile

\* payload 3, drop cadence 5, target ten tiles from the airfield
TimedFlight ==
    /\ cfg.bomberPayload = 3 /\ cfg.bomberDropCadence = 5
    /\ execs[1].targetTile = 23

\* C15: a bomber that is never destroyed, with payload P >= 1, drops exactly P
\* bombs, all before it starts returning, then returns, and on arriving back at
\* the airfield is deleted and its execution becomes inactive; with P = 3,
\* cadence 5 and a target 10 tiles away this is over within 40 ticks.
C15_BomberLifecycle ==
    /\ [](probe.kind = "Flight" =>
            /\ probe.drops <= cfg.bomberPayload
            /\ probe.dropsReturning = 0
            /\ execs[1].returning <=> probe.drops = cfg.bomberPayload
            /\ ~IsActive(execs[1]) => FlightOver
            /\ (TimedFlight /\ ticks >= 40) => FlightOver)
    /\ <>FlightOver

\* the timed flight is over, after three drops
C15_Witness ==
    /\ probe.kind = "Flight" /\ TimedFlight /\ FlightOver
    /\ probe.drops = 3 /\ ticks <= 40

-----------------------------------------------------------------------------
(* One execution under the tick loop, with the effects of its last tick()     *)

\* the executions as the tick loop first meets them: init() has run; the one
\* exception is an AirfieldExecution whose init() was skipped
ExecsTicked ==
    {ExecInit(e, 0, NoTile) : e \in ExecsUnderTest}
    \cup {NewAirfield("P1", 1), NewCargoPlane("P1", 0, 15),
          NewSAMMissile(1, "P1", 15, 2)}

NewTickProbe(e) ==
    [kind |-> "Tick", calls |-> 0, before |-> e, airfields |-> <<>>,
     homes |-> <<>>, after |-> e, adds |-> <<>>, ev |-> <<>>, threw |-> FALSE,
     rejected |-> FALSE, invalid |-> FALSE, moves |-> 0, gold |-> <<>>,
     trade |-> [src |-> "P1", dst |-> "P1", ok |-> FALSE]]

InitEffect ==
    /\ cfg \in ExecConfigs
    /\ ticks = 0
    /\ \E e \in ExecsTicked : execs = <<e>> /\ probe = NewTickProbe(e)
    /\ SchedIdle
    /\ pf = NewPathFinder /\ last = NoCall /\ walker = NoWalker

\* the answer of canBuild during this tick() was a rejection
SpawnRejected(e, in) ==
    /\ e.kind \in {"Bomber", "CargoPlane", "Airfield", "Construction"}
    /\ ~e.spawned
    /\ e.kind = "Airfield" => e.inited
    /\ e.kind = "Construction" => e.duration # NoDuration
    /\ in.spawn = NoTile

\* tick() on e finds the cargo plane alive and owned by another player than the
\* one the execution has recorded
OwnerChanged(e) ==
    /\ e.kind = "CargoPlane" /\ e.spawned /\ e.unitAlive
    /\ e.unitOwner # e.origOwner

\* what one call of tick() on e did, given the collaborators' answers; homes are
\* the airfields the owner had at the latest capture
TickProbe(e, in, now) ==
    LET r == ExecTick(e, in, now)
    IN  [kind |-> "Tick", calls |-> probe.calls + 1, before |-> e,
         airfields |-> IF e.kind = "CargoPlane" THEN in.airfields ELSE <<>>,
         homes |-> IF OwnerChanged(e) THEN in.airfields ELSE probe.homes,
         after |-> r.e, adds |-> r.adds, ev |-> r.ev, threw |-> r.threw,
         rejected |-> probe.rejected \/ SpawnRejected(e, in),
         moves |-> probe.moves + Count(r.ev, "move"),
         gold |-> IF e.kind = "CargoPlane"
                  THEN probe.gold \o (IF "gold" \in DOMAIN r THEN r.gold ELSE <<>>)
                  ELSE <<>>,
         trade |-> IF e.kind = "CargoPlane"
                   THEN [src |-> in.srcOwner, dst |-> in.dstOwner,
                         ok |-> in.dstActive /\ in.canTrade]
                   ELSE probe.trade,
         invalid |-> /\ e.kind = "SAMMissile"
                     /\ ~(/\ in.targetActive /\ in.launcherActive
                           /\ in.targetOwner # e.owner /\ in.targetWhitelisted)]

\* the tick loop calls tick() on the execution while it reports active
EffectTick ==
    /\ ticks < MaxHarnessTicks
    /\ IsActive(execs[1])
    /\ \E p \in {TickProbe(execs[1], in, ticks) : in \in TickInputs(execs[1])} :
          execs' = <<p.after>> /\ probe' = p
    /\ ticks' = ticks + 1
    /\ UNCHANGED <<cfg, unInitExecs, phase, idx, nextId, hist, tickedNow, eligible, pfVars>>

NextEffect == EffectTick \/ HarnessDestroy \/ HarnessCapture

SpecEffect == InitEffect /\ [][NextEffect]_vars

\* the last call of tick() changed nothing but the listed fields of the execution
OnlyWentInactive ==
    /\ probe.after = [probe.before EXCEPT !.active = FALSE]
    /\ probe.adds = <<>> /\ probe.ev = <<>> /\ ~probe.threw

\* C16: for BomberExecution, CargoPlaneExecution, SAMMissileExecution,
\* ConstructionExecution and AirfieldExecution, a tick() that finds the unit it
\* spawned earlier no longer active sets the execution inactive and does nothing
\* else: no move, no drop, no gold, no deletion, no execution registered.
C16_DeadUnitEndsExecution ==
    ( /\ probe.kind = "Tick" /\ probe.calls >= 1
      /\ probe.before.kind \in {"Bomber", "CargoPlane", "SAMMissile",
                                 "Construction", "Airfield"}
      /\ probe.before.spawned /\ ~probe.before.unitAlive )
    => OnlyWentInactive

\* a returning bomber was shot down and its execution ended on the next tick()
C16_Witness ==
    /\ probe.kind = "Tick" /\ probe.before.kind = "Bomber"
    /\ probe.before.spawned /\ ~probe.before.unitAlive /\ probe.before.returning
    /\ probe.before.active /\ execs[1] = probe.after /\ ~execs[1].active

\* C17: for BomberExecution, CargoPlaneExecution, AirfieldExecution and
\* ConstructionExecution of a type with a construction duration: when canBuild
\* rejects during the first tick(), the execution goes inactive in that tick, with
\* no unit built, no gold changed, no execution registered and no exception; the
\* tick loop never calls it again, so that canBuild is asked once and no unit is
\* ever built.
C17_RejectedSpawnEndsExecution ==
    (probe.kind = "Tick" /\ probe.rejected)
    => /\ probe.calls = 1
       /\ OnlyWentInactive
       /\ execs[1] = probe.after
       /\ ~execs[1].spawned /\ ~IsActive(execs[1])

\* an airfield execution whose canBuild was rejected on its first tick()
C17_Witness ==
    /\ probe.kind = "Tick" /\ probe.rejected /\ probe.before.kind = "Airfield"
    /\ probe.before.active /\ ~execs[1].active /\ ~execs[1].spawned

SeqRange(seq) == {seq[k] : k \in 1 .. Len(seq)}

\* the last tick() went on with the flight to dst: one step, or the arrival
FlewOn(dst) ==
    LET result == StraightNextTile(probe.before.tile, dst, 2)
    IN  IF result = NoTile
        THEN ~probe.after.active /\ ~probe.after.unitAlive /\ probe.ev = <<"delete">>
        ELSE /\ probe.after.active /\ probe.after.unitAlive
             /\ probe.after.tile = result /\ probe.ev = <<"move">>

\* C18: a tick() of CargoPlaneExecution that finds the plane owned by another
\* player than the recorded one records the new owner and either redirects the
\* plane to the nearest (squared Euclidean distance from the plane's tile) of the
\* new owner's airfields and goes on with the flight, or, when the new owner has
\* no airfield, deletes the plane and goes inactive in that tick; after a capture
\* the destination of a live execution is one of the capturing owner's airfields.
C18_CapturedPlaneRehomes ==
    /\ ( /\ probe.kind = "Tick" /\ probe.calls >= 1
         /\ OwnerChanged(probe.before) )
       => /\ probe.after.origOwner = probe.before.unitOwner
          /\ probe.after.isCaptured
          /\ probe.adds = <<>> /\ ~probe.threw
          /\ IF probe.airfields = <<>>
             THEN /\ ~probe.after.active /\ ~probe.after.unitAlive
                  /\ probe.after.tile = probe.before.tile
                  /\ probe.ev = <<"delete">>
             ELSE /\ probe.after.dstTile \in SeqRange(probe.airfields)
                  /\ \A a \in SeqRange(probe.airfields) :
                        EuclideanDistSquared(probe.before.tile, probe.after.dstTile)
                           <= EuclideanDistSquared(probe.before.tile, a)
                  /\ FlewOn(probe.after.dstTile)
    /\ ( /\ probe.kind = "Tick" /\ execs[1].kind = "CargoPlane"
         /\ execs[1].isCaptured /\ IsActive(execs[1]) )
       => execs[1].dstTile \in SeqRange(probe.homes)

\* a captured plane that was nearer to the second of the new owner's two airfields
\* and now flies towards it
C18_Witness ==
    /\ probe.kind = "Tick" /\ OwnerChanged(probe.before)
    /\ Len(probe.airfields) = 2
    /\ probe.after.dstTile = probe.airfields[2]
    /\ probe.after.dstTile # probe.before.dstTile
    /\ probe.after.active /\ probe.ev = <<"move">> /\ execs[1] = probe.after

-----------------------------------------------------------------------------
(* Two runs of the tick loop on the same registrations                        *)

GenPeriod == 3
MaxTwinTicks == 5
FirstTwinTick == 8

TwinConfigs ==
    [w : {8}, h : {3}, bomberPayload : {1}, bomberDropCadence : {2},
     bomberSpawnInterval : {1}, fighterJetSpawnInterval : {1},
     fighterJetAttackRate : {2}, numSpawnPhaseTurns : {0},
     iterations : {1}, maxTries : {1}]

\* PseudoRandom: the k-th draw of a generator is a function of its seed and of k;
\* probe.gen is the generator the build has
NextBool(seed, k) == probe.gen[(seed + k) % GenPeriod]

\* a seed taken from something that differs from run to run
SeedFromRun(now, run) == now + run
\* new PseudoRandom(mg.ticks())
Seed(now, run) == now

\* init(mg, ticks) of an execution of the given run, with its generator
Seeded(e, now, run) ==
    [seed |-> Seed(now, run), drawn |-> 0] @@ ExecInit(e, now, NoTile)

\* what the rest of the game answers during one tick
Worlds == [ok : Bool, capped : Bool]

\* the collaborators' answers to e in world w, the random ones drawn from e's
\* generator
Answers(e, w) ==
    CASE e.kind = "Bomber" ->
            [spawn |-> IF w.ok THEN e.airfieldTile ELSE NoTile]
      [] e.kind = "CargoPlane" ->
            [spawn |-> IF w.ok THEN e.srcTile ELSE NoTile, srcOwner |-> "P1",
             dstOwner |-> "P2", dstActive |-> TRUE, canTrade |-> ~w.capped,
             airfields |-> <<>>]
      [] e.kind = "SAMMissile" ->
            [targetActive |-> w.ok, launcherActive |-> TRUE, targetOwner |-> "P2",
             targetWhitelisted |-> TRUE,
             chances |-> [i \in 1 .. e.speed |-> NextBool(e.seed, e.drawn + i)]]
      [] e.kind = "Airfield" ->
            [spawn |-> IF w.ok THEN e.tile ELSE NoTile, bombersCapped |-> w.capped,
             cargoChance |-> NextBool(e.seed, e.drawn + 1),
             destField |-> IF NextBool(e.seed, e.drawn + 2)
                           THEN cfg.w * cfg.h - 1 ELSE cfg.w - 1,
             targetTile |-> NoTile, fightersCapped |-> TRUE,
             enemyAirUnits |-> FALSE]
      [] OTHER -> [none |-> TRUE]

\* how many draws the tick took from e's generator: one per step of the air
\* mover, two when the airfield reaches its cargo-plane lottery
Draws(e, r, w, now) ==
    CASE e.kind = "SAMMissile" -> Count(r.ev, "move")
      [] e.kind = "Airfield" ->
            IF /\ r.e.active /\ r.e.unitAlive /\ ~w.capped
               /\ (now + e.checkOffset) % CheckPeriod = 0
            THEN 2 ELSE 0
      [] OTHER -> 0

\* the tick loop over the live executions of one run
RECURSIVE TickAll(_, _, _, _)
TickAll(todo, w, now, acc) ==
    IF todo = <<>> THEN acc
    ELSE LET e == Head(todo)
             r == ExecTick(e, Answers(e, w), now)
             e1 == [r.e EXCEPT !.drawn = @ + Draws(e, r, w, now)]
         IN  TickAll(Tail(todo), w, now,
                     [live |-> Append(acc.live, e1), adds |-> acc.adds \o r.adds])

\* one tick of one run: tick() on the live executions, init() on the pending
\* ones and on the children, merge, removal of the inactive
RunTick(run, live, pending, w, now) ==
    LET t == TickAll(live, w, now, [live |-> <<>>, adds |-> <<>>])
        new == pending \o t.adds
    IN  MergeAndRemove(t.live, [k \in 1 .. Len(new) |-> Seeded(new[k], now, run)])

\* the executions the players register, the same in both runs
TwinIntents == {NewSAMMissile(1, "P1", 19, 2), NewAirfield("P1", 1)}

InitTwin ==
    /\ cfg \in TwinConfigs
    /\ ticks = FirstTwinTick
    /\ execs = <<>>
    /\ SchedIdle
    /\ pf = NewPathFinder /\ last = NoCall /\ walker = NoWalker
    /\ \E g \in [0 .. GenPeriod - 1 -> Bool] :
          probe = [kind |-> "Twin", gen |-> g, twin |-> <<>>]

TwinRegister ==
    /\ Len(unInitExecs) < MaxIntents
    /\ Len(execs) + Len(unInitExecs) < MaxExecs
    /\ \E e \in TwinIntents : unInitExecs' = Append(unInitExecs, e)
    /\ UNCHANGED <<cfg, ticks, execs, phase, idx, nextId, hist, tickedNow, eligible,
                   pfVars, probe>>

TwinTick ==
    /\ ticks < FirstTwinTick + MaxTwinTicks
    /\ \E w \in Worlds :
          /\ execs' = RunTick(0, execs, unInitExecs, w, ticks)
          /\ probe' = [probe EXCEPT
                          !.twin = RunTick(1, probe.twin, unInitExecs, w, ticks)]
    /\ Len(execs') <= MaxExecs
    /\ unInitExecs' = <<>>
    /\ ticks' = ticks + 1
    /\ UNCHANGED <<cfg, phase, idx, nextId, hist, tickedNow, eligible, pfVars>>

NextTwin == TwinRegister \/ TwinTick

SpecTwin == InitTwin /\ [][NextTwin]_vars

\* unit.tile() of the unit the execution built
UnitTile(e) ==
    CASE e.kind = "Airfield" -> e.unitTile
      [] e.kind \in {"Bomber", "CargoPlane", "SAMMissile"} -> e.tile
      [] OTHER -> NoTile

\* the active executions of a run, in order, each with the position of its unit
Visible(live) ==
    [k \in 1 .. Len(live) |->
        [kind |-> live[k].kind, active |-> IsActive(live[k]),
         tile |-> UnitTile(live[k])]]

C19_OtherDraw ==
    /\ probe.kind = "Twin"
    /\ \E k \in 1 .. Len(execs) :
          /\ execs[k].kind = "SAMMissile" /\ execs[k].drawn = 2
          /\ execs[k].tile = 10

\* C20: tick() on an AirfieldExecution whose init() has not run throws
\* 'Not initialized' and does nothing else: no airfield is built, no execution is
\* registered, and no field of the execution changes, the active flag included.
C20_UninitializedTickThrows ==
    ( /\ probe.kind = "Tick" /\ probe.calls >= 1
      /\ probe.before.kind = "Airfield" /\ ~probe.before.inited )
    => /\ probe.threw
       /\ probe.after = probe.before
       /\ probe.adds = <<>> /\ probe.ev = <<>>

\* an airfield execution ticked without init(): still active, nothing built
C20_Witness ==
    /\ probe.kind = "Tick" /\ probe.calls >= 1
    /\ probe.before.kind = "Airfield" /\ ~probe.before.inited
    /\ probe.threw /\ execs[1].active /\ ~execs[1].spawned

\* C21: between two consecutive drops of one BomberExecution at least
\* bomberDropCadence ticks elapse.
C21_AsStated ==
    (probe.kind = "Flight" /\ probe.minGap # 0)
    => probe.minGap >= cfg.bomberDropCadence

\* with cadence 5, two bombs dropped on consecutive ticks
C21_Witness ==
    /\ probe.kind = "Flight" /\ cfg.bomberDropCadence = 5
    /\ probe.drops >= 2 /\ probe.minGap = 1

\* C22: a BomberExecution drops a bomb only in a tick where the squared Euclidean
\* distance between the bomber's tile and the target tile is at most 1.
C22_AsStated ==
    probe.kind = "Flight" => probe.maxDropDist <= 1

\* a bomb dropped four tiles short of the target
C22_Witness ==
    /\ probe.kind = "Flight" /\ probe.drops >= 1
    /\ execs[1].targetTile = 23 /\ probe.maxDropDist = 16

\* C23: in every reachable state of a BomberExecution 0 <= bombsLeft <=
\* bomberPayload and returning implies bombsLeft = 0; a tick() that starts with
\* returning set drops no bomb and leaves returning set.
C23_BomberPayloadInvariant ==
    (probe.kind = "Tick" /\ execs[1].kind = "Bomber")
    => /\ execs[1].bombsLeft >= 0 /\ execs[1].bombsLeft <= cfg.bomberPayload
       /\ execs[1].returning => execs[1].bombsLeft = 0
       /\ (probe.calls >= 1 /\ probe.before.returning)
          => probe.after.returning /\ Count(probe.ev, "drop") = 0

\* a bomber that dropped its two bombs, turned back and reached its airfield
C23_Witness ==
    /\ probe.kind = "Tick" /\ execs[1].kind = "Bomber"
    /\ cfg.bomberPayload = 2 /\ execs[1].bombsLeft = 0
    /\ probe.before.returning /\ probe.before.unitAlive /\ execs[1].returning
    /\ probe.ev = <<"delete">>

\* C24: one invocation of PathFinder.nextTile makes at most one compute() call on
\* a search, whatever the session state and the arguments.
C24_AsStated ==
    last.type # "None" => last.computes <= 1

\* a call that came with a new destination while a search was running: the old
\* search finished in it, and the search started for the new destination was
\* given an increment in the same call
C24_Witness ==
    /\ last.type # "None" /\ last.computes = 2
    /\ ~last.before.computeFinished /\ last.before.dst # last.dst
    /\ last.searches = 1

-----------------------------------------------------------------------------
(* FighterJetExecution: attack() and patrol() of one jet                      *)

MaxAttempts == 10      \* const maxAttempts = 10
MaxSamples == 12
MaxJetTicks == 2

\* dogfight: the variant of the class whose attack() circles the target
DogfightConfigs ==
    [w : {5}, h : {3}, dogfight : Bool,
     fighterJetDogfightDistance : {2, 4}, fighterJetMinDogfightDistance : {1, 2},
     fighterJetTargetReachedDistance : {1}, fighterJetSpeed : {2},
     fighterJetAttackRate : {2}]

IsValidCoord(x, y) == x \in 0 .. cfg.w - 1 /\ y \in 0 .. cfg.h - 1

\* random.nextInt(Math.floor(-range / 2), Math.floor(range / 2)): any integer
\* from the lower bound up to, but not including, the upper bound
NextInts(range) == (-((range + 1) \div 2)) .. ((range \div 2) - 1)

\* the pairs of draws of one tick: n times the pair a, then the pair b
Samples(range) ==
    [a : {<<0, 0>>, <<-1, 0>>, <<-1, -1>>},
     n : {0, MaxAttempts - 1, MaxAttempts, MaxSamples},
     b : NextInts(range) \X NextInts(range)]

\* a loop that takes any point off the target's tile, however close
SampleAgainAnyDistance(onTarget, invalid, tooClose, attempts) ==
    onTarget \/ invalid
\* the condition of the do-while loop
SampleAgain(onTarget, invalid, tooClose, attempts) ==
    onTarget \/ invalid \/ (tooClose /\ attempts < MaxAttempts)

\* the do-while loop of attack(), after `attempts` samples; it is followed for
\* MaxSamples samples, and again tells whether it would go on after the last
RECURSIVE CirclingPoint(_, _, _)
CirclingPoint(target, s, attempts) ==
    LET k == attempts + 1
        off == IF k <= s.n THEN s.a ELSE s.b
        newX == X(target) + off[1]
        newY == Y(target) + off[2]
        invalid == ~IsValidCoord(newX, newY)
        again == SampleAgain(newX = X(target) /\ newY = Y(target), invalid,
                             /\ ~invalid
                             /\ EuclideanDistSquared(Ref(newX, newY), target)
                                   < cfg.fighterJetMinDogfightDistance
                                       * cfg.fighterJetMinDogfightDistance,
                             k)
    IN  IF again /\ k < MaxSamples THEN CirclingPoint(target, s, k)
        ELSE [x |-> newX, y |-> newY, attempts |-> k, again |-> again]

NoSampling == [x |-> 0, y |-> 0, attempts |-> 0, again |-> FALSE]

\* new ShellExecution(...)
NewShell == NewOpaque("Shell")

\* a jet that fires in every tick
ShellDueAlways(now) == TRUE
\* mg.ticks() % fighterJetAttackRate === 0
ShellDue(now) == now % cfg.fighterJetAttackRate = 0

\* attack() with the dogfight band; in.target is the target unit's tile
FighterJetAttack(e, in, now) ==
    LET d2 == EuclideanDistSquared(e.tile, in.target)
        near == d2 <= cfg.fighterJetDogfightDistance * cfg.fighterJetDogfightDistance
        c == IF near THEN CirclingPoint(in.target, in.samples, 0) ELSE NoSampling
        towards == IF near /\ IsValidCoord(c.x, c.y) THEN Ref(c.x, c.y)
                   ELSE in.target
        result == StraightNextTile(e.tile, towards, cfg.fighterJetSpeed)
        e1 == IF result = NoTile THEN e ELSE [e EXCEPT !.tile = result]
        ev == IF result = NoTile THEN <<>> ELSE <<"move">>
        info == [c |-> c, towards |-> towards, d2 |-> d2, target |-> in.target]
    IN  IF c.again THEN info @@ Out(e, <<>>, <<>>)
        ELSE IF d2 <= cfg.fighterJetTargetReachedDistance
                         * cfg.fighterJetTargetReachedDistance
        THEN info @@ Out([e1 EXCEPT !.hasTarget = FALSE], <<>>, ev)
        ELSE IF ShellDue(now) THEN info @@ Out(e1, <<NewShell>>, ev)
        ELSE info @@ Out(e1, <<>>, ev)

\* attack() of the variant without the dogfight band
FighterJetAttackPlain(e, in, now) ==
    LET info == [c |-> NoSampling, towards |-> in.target,
                 d2 |-> EuclideanDistSquared(e.tile, in.target),
                 target |-> in.target]
        result == StraightNextTile(e.tile, in.target, 2)
    IN  IF ~ShellDue(now) THEN info @@ Out(e, <<>>, <<>>)
        ELSE IF ~in.targetHasHealth
        THEN info @@ Out([e EXCEPT !.hasTarget = FALSE], <<NewShell>>, <<>>)
        ELSE IF result = NoTile THEN info @@ Out(e, <<NewShell>>, <<>>)
        ELSE info @@ Out([e EXCEPT !.tile = result], <<NewShell>>, <<"move">>)

\* patrol(); in.patrolTo is the tile randomTile() comes up with, if any
FighterJetPatrol(e, in) ==
    LET info == [c |-> NoSampling, towards |-> NoTile, d2 |-> 0,
                 target |-> NoTile]
        to == IF e.targetTile = NoTile THEN in.patrolTo ELSE e.targetTile
        result == StraightNextTile(e.tile, to, cfg.fighterJetSpeed)
    IN  IF to = NoTile THEN info @@ Out(e, <<>>, <<>>)
        ELSE IF result = NoTile
        THEN info @@ Out([e EXCEPT !.targetTile = NoTile], <<>>, <<>>)
        ELSE info @@ Out([e EXCEPT !.targetTile = to, !.tile = result], <<>>,
                         <<"move">>)

\* tick(): in.target is what findTargetUnit() came up with (NoTile: nothing)
FighterJetTickFull(e, in, now) ==
    LET info == [c |-> NoSampling, towards |-> NoTile, d2 |-> 0,
                 target |-> NoTile]
        e1 == [e EXCEPT !.hasTarget = in.target # NoTile]
    IN  IF in.healthDepleted
        THEN info @@ Out([e EXCEPT !.unitAlive = FALSE], <<>>, <<"delete">>)
        ELSE IF in.target = NoTile THEN FighterJetPatrol(e1, in)
        ELSE IF cfg.dogfight THEN FighterJetAttack(e1, in, now)
        ELSE FighterJetAttackPlain(e1, in, now)

JetTiles == {0, 2, 6, 7, 14}
JetTargets == {NoTile, 0, 7, 9}

NoSamples == [a |-> <<0, 0>>, n |-> 0, b |-> <<0, 0>>]

JetInputs ==
    [healthDepleted : Bool, target : {NoTile}, targetHasHealth : {TRUE},
     patrolTo : {NoTile, 12}, samples : {NoSamples}]
    \cup
    [healthDepleted : {FALSE}, target : JetTargets \ {NoTile},
     targetHasHealth : Bool, patrolTo : {NoTile},
     samples : IF cfg.dogfight THEN Samples(cfg.fighterJetDogfightDistance)
               ELSE {NoSamples}]

InitDogfight ==
    /\ cfg \in DogfightConfigs
    /\ ticks \in {0, 1}
    /\ \E t \in JetTiles :
          execs = <<[tile |-> t, targetTile |-> NoTile]
                    @@ FighterJetInit(NewFighterJet("P1", t), ticks, t)>>
    /\ probe = [kind |-> "Jet", calls |-> 0, from |-> NoTile, target |-> NoTile,
                c |-> NoSampling, towards |-> NoTile, d2 |-> 0, adds |-> <<>>,
                hadTarget |-> FALSE]
    /\ SchedIdle
    /\ pf = NewPathFinder /\ last = NoCall /\ walker = NoWalker

\* what one call of tick() did
JetProbe(e, in, now) ==
    LET r == FighterJetTickFull(e, in, now)
    IN  [kind |-> "Jet", calls |-> probe.calls + 1, from |-> e.tile,
         target |-> r.target, c |-> r.c, towards |-> r.towards, d2 |-> r.d2,
         adds |-> r.adds, hadTarget |-> r.e.hasTarget, after |-> r.e]

\* the tick loop calls tick() on the jet; a tick whose sampling loop is still
\* running has not returned
DogfightTick ==
    /\ probe.kind = "Jet"
    /\ ticks < MaxJetTicks
    /\ execs[1].unitAlive /\ ~probe.c.again
    /\ \E p \in {JetProbe(execs[1], in, ticks) : in \in JetInputs} :
          /\ execs' = <<p.after>>
          /\ probe' = [x \in DOMAIN p \ {"after"} |-> p[x]]
    /\ ticks' = ticks + 1
    /\ UNCHANGED <<cfg, unInitExecs, phase, idx, nextId, hist, tickedNow, eligible,
                   pfVars>>

SpecDogfight == InitDogfight /\ [][DogfightTick]_vars

\* C25: the sampling loop of attack() makes at most maxAttempts = 10 sampling
\* attempts in one tick, for every sequence of random outcomes.
C25_AsStated ==
    probe.kind = "Jet" => probe.c.attempts <= MaxAttempts

\* an eleventh sample was taken after ten samples that fell on the target's own
\* tile, and the loop asks for a twelfth
C25_Witness ==
    /\ probe.kind = "Jet" /\ probe.calls >= 1
    /\ probe.c.attempts > MaxAttempts
    /\ probe.c.x = X(probe.target) /\ probe.c.y = Y(probe.target)

Square(n) == n * n

\* the tick sampled a point to circle the target and its loop has ended
Circled == probe.kind = "Jet" /\ probe.c.attempts >= 1 /\ ~probe.c.again

C27_ShellOnlyWhenDue ==
    (probe.kind = "Jet" /\ probe.calls >= 1 /\ ~probe.c.again) =>
        /\ Len(probe.adds) <= 1
        /\ probe.adds # <<>> =>
              /\ probe.target # NoTile
              /\ probe.adds = <<NewShell>>
              /\ (ticks - 1) % cfg.fighterJetAttackRate = 0
        /\ ( /\ cfg.dogfight /\ probe.target # NoTile
             /\ probe.d2 <= Square(cfg.fighterJetTargetReachedDistance) ) =>
              probe.adds = <<>> /\ ~probe.hadTarget

\* a tick whose number is not a multiple of the rate has a target out of reach
\* and registers nothing
C27_Witness ==
    /\ probe.kind = "Jet" /\ probe.calls >= 1 /\ ~probe.c.again
    /\ probe.target # NoTile /\ probe.hadTarget
    /\ probe.d2 > Square(cfg.fighterJetTargetReachedDistance)
    /\ (ticks - 1) % cfg.fighterJetAttackRate # 0
    /\ probe.adds = <<>>

\* a tick that fired: the target was out of reach and the tick number was due
C27_Fired ==
    /\ probe.kind = "Jet" /\ probe.adds = <<NewShell>>
    /\ probe.d2 > Square(cfg.fighterJetTargetReachedDistance)

-----------------------------------------------------------------------------
(* AirfieldExecution: the bomber launch among the units of a game             *)

MaxWorldTicks == 11
MaxShotDown == 1

LaunchConfigs ==
    [w : {24}, h : {1}, bomberPayload : {1}, bomberDropCadence : {2},
     bomberSpawnInterval : {1}, fighterJetSpawnInterval : {1},
     bomberTargetRange : {30}]

\* const priority: UnitType[]
Priority ==
    <<"SAMLauncher", "Airfield", "MissileSilo", "Port", "DefensePost", "City",
      "Academy", "Hospital">>

Rank(type) == CHOOSE i \in 1 .. Len(Priority) : Priority[i] = type

Structure(type, tile, owner) == [type |-> type, tile |-> tile, owner |-> owner]

\* the Bomber units of the game: built by their execution and not yet deleted
BomberUnits(es) ==
    {k \in 1 .. Len(es) : es[k].kind = "Bomber" /\ es[k].spawned /\ es[k].unitAlive}

\* the Airfield units of the executions other than the i-th
AirfieldUnits(es, i) ==
    {k \in 1 .. Len(es) :
        k # i /\ es[k].kind = "Airfield" /\ es[k].spawned /\ es[k].unitAlive}

\* mg.units(UnitType.Airfield).length, the ticking airfield included
TotalAirfields(es, i, units) ==
    1 + Cardinality(AirfieldUnits(es, i))
      + Cardinality({k \in 1 .. Len(units) : units[k].type = "Airfield"})

\* this.player.units(UnitType.Bomber).length
ActiveBombers(es, player) ==
    Cardinality({k \in BomberUnits(es) : es[k].origOwner = player})

\* const busyTargets: the target tiles of the Bomber units
BusyTargets(es) == {es[k].targetTile : k \in BomberUnits(es)}

Dist2(from, u) == EuclideanDistSquared(from, u.tile)

\* const enemies: the units in range that belong to another player and are not
\* the target of a Bomber unit, in the order nearbyUnits lists them
Enemies(player, from, units, busy) ==
    SelectSeq(units, LAMBDA u :
        /\ Dist2(from, u) <= cfg.bomberTargetRange * cfg.bomberTargetRange
        /\ u.owner # player
        /\ u.tile \notin busy)

Owners(list) == {list[k].owner : k \in 1 .. Len(list)}

OfOwner(list, pid) == SelectSeq(list, LAMBDA u : u.owner = pid)

\* the least element of a non-empty set of integers
Least(ns) == CHOOSE n \in ns : \A m \in ns : n <= m

\* minDist: Math.min(...list.map((e) => e.dist2))
MinDist(from, list) == Least({Dist2(from, list[k]) : k \in 1 .. Len(list)})

\* where pid first appears in the list: the order of the entries of byPlayer
FirstOf(list, pid) == Least({k \in 1 .. Len(list) : list[k].owner = pid})

\* the head of playersByDist among the players left: the least minDist, and
\* among equals the earlier entry of byPlayer, the sort being stable
NextPlayer(from, enemies, players) ==
    CHOOSE p \in players : \A q \in players :
        LET dp == MinDist(from, OfOwner(enemies, p))
            dq == MinDist(from, OfOwner(enemies, q))
        IN  dp < dq \/ (dp = dq /\ FirstOf(enemies, p) <= FirstOf(enemies, q))

\* a choice that takes the first unit of the type in the list
OfTypeFirst(from, list, type) ==
    list[Least({k \in 1 .. Len(list) : list[k].type = type})]
\* ofType[0]: the units of the type sorted by dist2, the sort being stable
OfTypeNearest(from, list, type) ==
    LET ks == {k \in 1 .. Len(list) : list[k].type = type}
        d == Least({Dist2(from, list[k]) : k \in ks})
    IN  list[Least({k \in ks : Dist2(from, list[k]) = d})]

\* the first type of the priority order that the list holds
TopType(list) == Priority[Least({Rank(list[k].type) : k \in 1 .. Len(list)})]

\* the loops over playersByDist and priority; a tile that is falsy does not end
\* the outer loop
RECURSIVE TargetTile(_, _, _)
TargetTile(from, enemies, players) ==
    IF players = {} THEN NoTile
    ELSE LET p == NextPlayer(from, enemies, players)
             list == OfOwner(enemies, p)
             t == OfTypeNearest(from, list, TopType(list)).tile
         IN  IF Falsy(t) THEN TargetTile(from, enemies, players \ {p}) ELSE t

\* what the game answers to the i-th execution after the ones before it have
\* ticked; the cargo-plane lottery and the fighter-jet launch are left out
WorldAnswers(es, i, units) ==
    LET e == es[i]
    IN  CASE e.kind = "Bomber" -> [spawn |-> e.airfieldTile]
          [] e.kind = "Airfield" ->
                LET enemies == Enemies(e.player, e.tile, units, BusyTargets(es))
                IN  [spawn |-> e.tile,
                     bombersCapped |->
                         ActiveBombers(es, e.player) >= TotalAirfields(es, i, units),
                     cargoChance |-> FALSE, destField |-> NoTile,
                     targetTile |-> TargetTile(e.tile, enemies, Owners(enemies)),
                     fightersCapped |-> TRUE, enemyAirUnits |-> FALSE,
                     enemies |-> enemies]
          [] OTHER -> [none |-> TRUE]

\* the tick loop: tick() on the i-th execution and on those after it
\* the tick of airfield e reaches the bomber target selection: its check is
\* due, the cap is not reached and the spawn ticker has run up to the interval
AttemptsLaunch(e, in, now) ==
    /\ e.kind = "Airfield" /\ e.inited /\ ~Falsy(in.spawn)
    /\ (now + e.checkOffset) % CheckPeriod = 0
    /\ ~in.bombersCapped
    /\ e.spawnTicker + 1 >= cfg.bomberSpawnInterval

RECURSIVE WorldTickFrom(_, _, _, _, _, _, _)
WorldTickFrom(i, es, adds, launches, tried, units, now) ==
    IF i > Len(es)
    THEN [live |-> es, adds |-> adds, launches |-> launches, tried |-> tried]
    ELSE LET in == WorldAnswers(es, i, units)
             r == ExecTick(es[i], in, now)
             t == IF AttemptsLaunch(es[i], in, now) THEN {es[i].tile} ELSE {}
             bombers == SelectSeq(r.adds, LAMBDA a : a.kind = "Bomber")
             l == IF bombers = <<>> THEN <<>>
                  ELSE <<[from |-> es[i].tile, target |-> bombers[1].targetTile,
                          enemies |-> in.enemies]>>
         IN  WorldTickFrom(i + 1, [es EXCEPT ![i] = r.e], adds \o r.adds,
                           launches \o l, tried \cup t, units, now)

\* the airfields of P1 and the structures of the other players, as
\* nearbyUnits lists them
Layouts ==
    {[fields |-> <<1>>,
      units |-> <<Structure("Airfield", 23, "P2"), Structure("City", 20, "P2")>>],
     [fields |-> <<1, 2>>, units |-> <<Structure("City", 23, "P2")>>],
     [fields |-> <<1, 2>>,
      units |-> <<Structure("City", 23, "P2"), Structure("City", 20, "P2")>>],
     [fields |-> <<4>>,
      units |-> <<Structure("City", 22, "P2"), Structure("City", 18, "P2"),
                  Structure("SAMLauncher", 23, "P3"), Structure("Port", 2, "P1"),
                  Structure("Hospital", 14, "P2")>>],
     [fields |-> <<3>>,
      units |-> <<Structure("SAMLauncher", 0, "P2"), Structure("City", 5, "P2"),
                  Structure("Port", 21, "P3")>>],
     [fields |-> <<2>>,
      units |-> <<Structure("Hospital", 20, "P2"), Structure("MissileSilo", 23, "P2"),
                  Structure("MissileSilo", 21, "P2")>>]}
    \cup
    {[fields |-> <<4>>,
      units |-> <<Structure(t[1], 0, o[1]), Structure(t[2], 8, o[2]),
                  Structure(t[3], 7, o[3])>>] :
        t \in [1 .. 3 -> {"SAMLauncher", "City", "Hospital"}],
        o \in [1 .. 3 -> {"P2", "P3"}]}

InitLaunch ==
    /\ cfg \in LaunchConfigs
    /\ ticks = 0
    /\ \E l \in Layouts :
          /\ execs = [k \in 1 .. Len(l.fields) |->
                         ExecInit(NewAirfield("P1", l.fields[k]), 0, NoTile)]
          /\ probe = [kind |-> "World", units |-> l.units, shot |-> 0,
                      launches |-> <<>>,
                      triedAt |-> [f \in SeqRange(l.fields) |-> -1], gaps |-> {}]
    /\ SchedIdle
    /\ pf = NewPathFinder /\ last = NoCall /\ walker = NoWalker

\* one tick of the game: tick() on every execution in order, init() on the
\* executions they added, removal of the inactive
WorldTick ==
    /\ probe.kind = "World"
    /\ ticks < MaxWorldTicks
    /\ LET t == WorldTickFrom(1, execs, <<>>, <<>>, {}, probe.units, ticks)
       IN  /\ execs' = MergeAndRemove(t.live,
                           [k \in 1 .. Len(t.adds) |->
                               ExecInit(t.adds[k], ticks, NoTile)])
           /\ probe' = [probe EXCEPT
                  !.launches = t.launches,
                  !.triedAt = [f \in DOMAIN @ |->
                                  IF f \in t.tried THEN ticks ELSE @[f]],
                  !.gaps = @ \cup {ticks - probe.triedAt[f] :
                                     f \in {g \in t.tried : probe.triedAt[g] >= 0}}]
    /\ ticks' = ticks + 1
    /\ UNCHANGED <<cfg, unInitExecs, phase, idx, nextId, hist, tickedNow, eligible,
                   pfVars>>

\* a bomber is shot down between two ticks
ShootDown ==
    /\ probe.kind = "World"
    /\ probe.shot < MaxShotDown
    /\ \E k \in BomberUnits(execs) :
          execs' = [execs EXCEPT ![k].unitAlive = FALSE]
    /\ probe' = [probe EXCEPT !.shot = @ + 1]
    /\ UNCHANGED <<cfg, ticks, unInitExecs, phase, idx, nextId, hist, tickedNow,
                   eligible, pfVars>>

NextLaunch == WorldTick \/ ShootDown

SpecLaunch == InitLaunch /\ [][NextLaunch]_vars

\* the bombers of a player in flight, those launched and not yet built included
InFlight(player) ==
    {k \in 1 .. Len(execs) :
        /\ execs[k].kind = "Bomber" /\ execs[k].active
        /\ execs[k].origOwner = player
        /\ ~execs[k].spawned \/ execs[k].unitAlive}

OwnAirfields(player) ==
    {k \in 1 .. Len(execs) :
        /\ execs[k].kind = "Airfield" /\ execs[k].active
        /\ execs[k].player = player}

\* C28: a player's bombers in flight, launched BomberExecutions included, never
\* exceed the number of airfields the player owns.
C28_AsStated ==
    probe.kind = "World" =>
        Cardinality(InFlight("P1")) <= Cardinality(OwnAirfields("P1"))

\* one airfield of P1, one of P2: a second bomber is launched while the first
\* is in the air
C28_EnemyAirfield ==
    /\ probe.kind = "World" /\ probe.shot = 0
    /\ Cardinality(OwnAirfields("P1")) = 1
    /\ Cardinality(InFlight("P1")) = 2
    /\ Len(probe.launches) = 1

\* two airfields of P1 and none of another player: three bombers in flight
C28_Witness ==
    /\ probe.kind = "World"
    /\ Cardinality(OwnAirfields("P1")) = 2
    /\ Cardinality(InFlight("P1")) = 3
    /\ Len(probe.launches) = 2

\* C29: no two live bombers have the same target tile.
C29_AsStated ==
    probe.kind = "World" =>
        \A j, k \in InFlight("P1") :
            j # k => execs[j].targetTile # execs[k].targetTile

\* two airfields launch in the same tick at the same tile
C29_Witness ==
    /\ probe.kind = "World" /\ probe.shot = 0
    /\ Len(probe.launches) = 2
    /\ probe.launches[1].target = probe.launches[2].target
    /\ probe.launches[1].from # probe.launches[2].from

\* the unit of the list that stands on the tile
UnitOn(list, tile) == list[Least({k \in 1 .. Len(list) : list[k].tile = tile})]

\* u is of the highest-priority type the list holds and no unit of that type
\* in the list is nearer
BestOf(from, list, u) ==
    \A k \in 1 .. Len(list) :
        /\ Rank(u.type) <= Rank(list[k].type)
        /\ list[k].type = u.type => Dist2(from, u) <= Dist2(from, list[k])

C30_PassedOver ==
    /\ probe.kind = "World" /\ Len(probe.launches) = 1
    /\ probe.launches[1].target = 21
    /\ \E k \in 1 .. Len(probe.launches[1].enemies) :
          probe.launches[1].enemies[k].tile = 0

\* C31: between two consecutive bomber launch attempts of an airfield that
\* stays below the bomber cap exactly bomberSpawnInterval ticks elapse.
C31_AsStated ==
    probe.kind = "World" => \A g \in probe.gaps : g = cfg.bomberSpawnInterval

\* with an interval of one tick, the second attempt of an airfield comes ten
\* ticks after its first
C31_Witness ==
    /\ probe.kind = "World" /\ probe.shot = 0
    /\ cfg.bomberSpawnInterval = 1
    /\ probe.gaps = {CheckPeriod}
    /\ Len(probe.launches) = 1

-----------------------------------------------------------------------------
(* ConstructionExecution: the whole life of one construction                  *)

MaxBuildDuration == 2
MaxBuildTicks == 5
MaxCost == 2

\* the constructions under test, as the constructor leaves them
Builds ==
    {NewConstruction("P1", 1, t, d) :
        t \in ConstructionTypes, d \in {NoDuration} \cup (0 .. MaxBuildDuration)}

\* canBuild's answer and what unitInfo(type).cost(player) is in this tick
BuildInputs(e) == [spawn : {NoTile, e.tile}, cost : 1 .. MaxCost]

InitBuild ==
    /\ cfg \in {c \in ExecConfigs : c.bomberPayload = 0}
    /\ ticks = 0
    /\ \E e \in Builds : execs = <<ExecInit(e, 0, NoTile)>>
    /\ probe = [kind |-> "Build", calls |-> 0, builtAt |-> 0, rejected |-> FALSE,
                gold |-> <<>>, children |-> <<>>, endedAt |-> 0, ownerThen |-> "P1",
                threw |-> FALSE]
    /\ SchedIdle
    /\ pf = NewPathFinder /\ last = NoCall /\ walker = NoWalker

\* the n-th call of tick(), and what it did, added to the record of the life
BuildProbe(e, in, n) ==
    LET r == ExecTick(e, in, ticks)
    IN  [kind |-> "Build", calls |-> n,
         builtAt |-> IF ~e.spawned /\ r.e.spawned THEN n ELSE probe.builtAt,
         rejected |-> probe.rejected
                        \/ (~e.spawned /\ e.duration # NoDuration /\ ~r.e.spawned),
         gold |-> probe.gold
                    \o [k \in 1 .. Len(GoldOf(r)) |->
                           [at |-> n] @@ GoldOf(r)[k]],
         children |-> probe.children \o [k \in 1 .. Len(r.adds) |-> n],
         endedAt |-> IF ~r.e.active THEN n ELSE probe.endedAt,
         ownerThen |-> e.unitOwner,
         threw |-> r.threw,
         after |-> r.e]

BuildTick ==
    /\ probe.kind = "Build"
    /\ probe.calls < MaxBuildTicks
    /\ IsActive(execs[1])
    /\ \E p \in {BuildProbe(execs[1], in, probe.calls + 1) :
                    in \in BuildInputs(execs[1])} :
          /\ execs' = <<p.after>>
          /\ probe' = [x \in DOMAIN p \ {"after"} |-> p[x]]
    /\ ticks' = ticks + 1
    /\ UNCHANGED <<cfg, unInitExecs, phase, idx, nextId, hist, tickedNow, eligible,
                   pfVars>>

NextBuild == BuildTick \/ HarnessDestroy \/ HarnessCapture

SpecBuild == InitBuild /\ [][NextBuild]_vars

Removed == SelectSeq(probe.gold, LAMBDA g : g.amount < 0)
Added == SelectSeq(probe.gold, LAMBDA g : g.amount >= 0)

C32_Lost ==
    /\ probe.kind = "Build" /\ probe.builtAt = 1 /\ probe.endedAt = 3
    /\ execs[1].duration = 2 /\ Len(Removed) = 1 /\ Added = <<>>

C33_MissileOutcomes ==
    (probe.kind = "Tick" /\ probe.before.kind = "SAMMissile" /\ probe.calls >= 1) =>
        /\ Count(probe.ev, "deleteTarget") <= 1
        /\ Count(probe.ev, "deleteTarget") = 1 =>
              /\ probe.after.tile = probe.after.targetTile
              /\ Count(probe.ev, "delete") = 1
              /\ ~probe.after.unitAlive /\ ~probe.after.active
        /\ probe.invalid =>
              /\ ~probe.after.unitAlive /\ ~probe.after.active
              /\ Count(probe.ev, "move") = 0
              /\ Count(probe.ev, "deleteTarget") = 0
              /\ (~probe.before.spawned \/ probe.before.unitAlive) =>
                    Count(probe.ev, "delete") = 1
        /\ Count(probe.ev, "move") <= probe.before.speed

\* a missile in flight whose target has come into its owner's hands is deleted
\* where it is
C33_Witness ==
    /\ probe.kind = "Tick" /\ probe.before.kind = "SAMMissile"
    /\ probe.before.spawned /\ probe.before.unitAlive
    /\ probe.invalid
    /\ probe.ev = <<"delete">>
    /\ probe.after.tile = probe.before.tile
    /\ probe.after.tile # probe.after.targetTile

\* the missile reaches the target's tile and both are deleted
C33_Hit ==
    /\ probe.kind = "Tick" /\ probe.before.kind = "SAMMissile"
    /\ ~probe.invalid
    /\ Count(probe.ev, "deleteTarget") = 1
    /\ probe.after.tile = probe.after.targetTile

\* the last tick() found the plane alive, never captured, its trade still
\* allowed, and within reach of its destination
ArrivedUncaptured ==
    LET b == probe.before
        at == IF b.spawned THEN b.tile ELSE b.srcTile
    IN  /\ probe.calls >= 1 /\ ~probe.rejected
        /\ b.active /\ (b.spawned => b.unitAlive)
        /\ ~b.isCaptured /\ (b.spawned => b.unitOwner = b.origOwner)
        /\ ~(probe.trade.dst = probe.trade.src /\ b.origOwner = probe.trade.src)
        /\ probe.trade.ok
        /\ StraightNextTile(at, b.dstTile, 2) = NoTile

\* C34: gold is paid only when the plane arrives and was never captured; then
\* the owners of the source and of the destination airfield each receive
\* cargoPlaneGold(tilesTraveled) once, tilesTraveled being the number of move
\* steps the plane made; a plane that was captured or deleted before arrival
\* pays nobody.
C34_GoldOnlyOnUncapturedArrival ==
    (probe.kind = "Tick" /\ probe.before.kind = "CargoPlane") =>
        /\ probe.gold # <<>> =>
              /\ ~probe.after.active /\ ~probe.after.unitAlive
              /\ ~probe.after.isCaptured
              /\ probe.gold = <<[player |-> probe.trade.src, dist |-> probe.moves],
                                [player |-> probe.trade.dst, dist |-> probe.moves]>>
              /\ ArrivedUncaptured
        /\ ArrivedUncaptured => Len(probe.gold) = 2
        /\ probe.after.isCaptured => probe.gold = <<>>

\* a plane that made two move steps pays both owners for a distance of two
C34_Witness ==
    /\ probe.kind = "Tick" /\ probe.before.kind = "CargoPlane"
    /\ probe.moves = 2 /\ Len(probe.gold) = 2
    /\ probe.gold[1].dist = 2 /\ probe.gold[2].dist = 2
    /\ probe.gold[1].player # probe.gold[2].player

\* a captured plane arrives at its new home and pays nobody
C34_Captured ==
    /\ probe.kind = "Tick" /\ probe.before.kind = "CargoPlane"
    /\ probe.after.isCaptured /\ ~probe.after.active
    /\ probe.moves >= 1 /\ probe.gold = <<>>
    /\ probe.trade.ok
    /\ StraightNextTile(probe.after.tile, probe.after.dstTile, 2) = NoTile

-----------------------------------------------------------------------------
(* A caller that chases a moving destination: before each call the            *)
(* destination may be any of a few tiles; the caller moves to each tile        *)
(* returned as NextTile and stays where it is otherwise.                       *)

ChaseStarts == {0, 59}
ChaseDsts == {1, 30, 36, 60, 65, 74}

InitPFChase ==
    /\ cfg \in {c \in PFConfigs : c.maxTries = MaxTries}
    /\ pf = NewPathFinder
    /\ last = NoCall
    /\ \E a \in ChaseStarts, dist \in PFDists :
          walker = [pos |-> a, dst |-> a, dist |-> dist, result |-> "None"]
    /\ probe = NoProbe
    /\ ticks = 0 /\ execs = <<>>
    /\ SchedIdle

ChaseStep ==
    /\ walker.result # "Threw"
    /\ walker.dst # NoTile
    /\ \E b \in ChaseDsts :
          LET r == NextTile(pf, walker.pos, b, walker.dist)
          IN  /\ pf' = r.pf
              /\ last' = Called(pf, walker.pos, b, walker.dist, r)
              /\ walker' = [walker EXCEPT
                              !.pos = IF r.type = "NextTile" THEN r.node ELSE @,
                              !.dst = b,
                              !.result = IF r.threw THEN "Threw" ELSE r.type]
    /\ UNCHANGED <<cfg, schedVars, probe>>

SpecPFChase == InitPFChase /\ [][ChaseStep]_vars

\* C35: nextTile never raises 'Missing tile in path' when closeEnoughDistance
\* is at least 1, the search returns a contiguous route and the caller moves to
\* every tile returned as NextTile and stays put on Pending, whatever the
\* sequence of destination changes.
C35_NeverMissingTile ==
    (walker.dst # NoTile /\ walker.dist >= 1) =>
        ~last.threw /\ walker.result # "Threw"

\* the caller stands at the end of a used-up route, the destination has moved
\* on, and the call starts a new search
C35_Witness ==
    /\ walker.dst # NoTile /\ last.type # "None"
    /\ last.before.hasPath /\ last.before.path = <<>>
    /\ last.before.computeFinished
    /\ last.curr = last.before.dst
    /\ last.dst # last.before.dst
    /\ ManhattanDist(last.dst, last.before.dst) <= 10
    /\ last.searches = 1 /\ ~last.threw

\* C36: whenever nextTile(curr, dst) returns NextTile, the tile comes from a
\* route whose search destination D0 is within tolerance(manhattanDist(curr,
\* dst)) of dst, also when dst changed while the search was in progress.
C36_TileFromFreshRoute ==
    last.type = "NextTile" =>
        /\ pf.aStar.state = "found"
        /\ pf.aStar.dst = pf.dst
        /\ last.node \in SeqRange(AStarReconstructPath(pf.aStar))
        /\ ManhattanDist(pf.aStar.dst, last.dst)
             <= Tolerance(ManhattanDist(last.curr, last.dst))

\* a search started for tile 60 finishes in a call that asks for tile 65, more
\* than 50 tiles away: the tile returned is the first of the route to 60
C36_Witness ==
    /\ last.type = "NextTile"
    /\ ~last.before.computeFinished
    /\ last.before.dst = 60 /\ last.dst = 65 /\ last.curr = 0
    /\ last.searches = 0 /\ last.computes = 1
    /\ pf.aStar.dst = 60

\* a search started for tile 35 finishes in a call that asks for tile 0 from
\* tile 30: the route is dropped and the tile returned leads to tile 0
C36_Restarted ==
    /\ last.type = "NextTile"
    /\ ~last.before.computeFinished
    /\ last.before.dst = 35 /\ last.dst = 0 /\ last.curr = 30
    /\ last.searches = 1
    /\ pf.aStar.dst = 0 /\ last.node = 29

-----------------------------------------------------------------------------
(* Executions and the units they spawn.                                       *)

UnitSpawners == {"Bomber", "CargoPlane", "SAMMissile", "Construction"}

\* C37: whenever a Bomber-, CargoPlane-, SAMMissile- or ConstructionExecution
\* is inactive, the unit it spawned, if any, is not active.
C37_NoUnitOutlivesItsExecution ==
    \A k \in 1 .. Len(execs) :
        (execs[k].kind \in UnitSpawners /\ ~execs[k].active /\ execs[k].spawned)
        => ~execs[k].unitAlive

\* a tick ended the execution of a spawned unit and deleted the unit itself
C37_Witness ==
    /\ probe.kind = "Tick" /\ probe.calls >= 2
    /\ probe.before.kind \in UnitSpawners
    /\ probe.before.spawned /\ probe.before.unitAlive /\ probe.before.active
    /\ execs[1] = probe.after
    /\ ~execs[1].active /\ ~execs[1].unitAlive
    /\ Count(probe.ev, "delete") = 1

-----------------------------------------------------------------------------
(* Sorties: a bomber flown to the end, with any payload.                      *)

\* the map of FlightConfigs; a bomber may carry nothing
SortieConfigs ==
    [w : {12}, h : {3}, bomberPayload : 0 .. MaxFlightPayload,
     bomberDropCadence : {1, 5}]

\* airfields on (1, 1), (11, 2) and (2, 0)
SortieAirfields == {13, 35, 2}

SortieClock == 2

InitSortie ==
    /\ cfg \in SortieConfigs
    /\ ticks = 0
    /\ \E airfield \in SortieAirfields, target \in FlightTargets :
          execs = <<BomberInit(NewBomber("P1", airfield, target), 0)>>
    /\ probe = NoProbe
    /\ pf = NewPathFinder /\ last = NoCall /\ walker = NoWalker
    /\ SchedIdle

\* one tick() of the bomber, which does not read the clock: the clock is kept
\* modulo SortieClock
SortieTick ==
    /\ IsActive(execs[1])
    /\ \E in \in TickInputs(execs[1]) :
          execs' = <<BomberTick(execs[1], in).e>>
    /\ ticks' = (ticks + 1) % SortieClock
    /\ UNCHANGED <<cfg, unInitExecs, phase, idx, nextId, hist, tickedNow, eligible,
                   pfVars, probe>>

\* ticked once per tick, never destroyed
SpecSortie == InitSortie /\ [][SortieTick]_vars /\ WF_vars(SortieTick)

\* C38: every BomberExecution that is ticked once per tick eventually becomes
\* inactive, for every bomberPayload (0 included) and every target and airfield
\* position, even if the bomber is never destroyed.
C38_AsStated == <>(~IsActive(execs[1]))

\* a bomber with bombs to drop does come back
C38_EndsWithPayload == (cfg.bomberPayload >= 1) => <>(~IsActive(execs[1]))

\* a bomber without bombs has arrived over its target: tick() changes nothing
\* any more, and the execution is still active
C38_Witness ==
    /\ cfg.bomberPayload = 0
    /\ IsActive(execs[1]) /\ execs[1].spawned /\ execs[1].unitAlive
    /\ ~execs[1].returning /\ execs[1].bombsLeft = 0
    /\ StraightNextTile(execs[1].tile, execs[1].targetTile, 2) = NoTile
    /\ BomberTick(execs[1], [spawn |-> execs[1].airfieldTile]).e = execs[1]

-----------------------------------------------------------------------------
(* Fighter jets leave an airfield only together with a bomber.                *)

\* the executions of a kind registered by the last tick()
AddedOf(kind) == {k \in 1 .. Len(probe.adds) : probe.adds[k].kind = kind}

\* C40: an AirfieldExecution registers a FighterJetExecution only in a tick in
\* which it has also registered a BomberExecution; in a tick that ends at the
\* bomber cap, before the bomber spawn interval has elapsed or without an
\* eligible target, no fighter jet is launched.
C40_FighterOnlyWithBomber ==
    (probe.kind = "Tick" /\ probe.before.kind = "Airfield")
    => /\ Cardinality(AddedOf("FighterJet")) <= Cardinality(AddedOf("Bomber"))
       /\ Cardinality(AddedOf("Bomber")) <= 1
       /\ AddedOf("Bomber") = {}
            => /\ AddedOf("FighterJet") = {}
               /\ probe.after.fighterSpawnTicker = probe.before.fighterSpawnTicker
       /\ AddedOf("Bomber") # {}
            => /\ probe.after.spawnTicker = 0
               /\ probe.before.spawnTicker + 1 >= cfg.bomberSpawnInterval

\* a tick of an airfield registered a bomber and, after it, a fighter jet
C40_Witness ==
    /\ probe.kind = "Tick" /\ probe.before.kind = "Airfield"
    /\ \E b \in AddedOf("Bomber"), f \in AddedOf("FighterJet") : b < f
    /\ probe.after.fighterSpawnTicker = 0

\* a check of an airfield that found the bomber spawn interval not elapsed
\* registered nothing but a cargo plane
C40_NoBomberNoFighter ==
    /\ probe.kind = "Tick" /\ probe.before.kind = "Airfield"
    /\ probe.after.spawnTicker = 1 /\ cfg.bomberSpawnInterval = 2
    /\ AddedOf("CargoPlane") # {}
    /\ AddedOf("Bomber") = {} /\ AddedOf("FighterJet") = {}

====
